---- MODULE Spec2Model ----
(***************************************************************************)
(* A model of the zklib-fitness client: the byte codec (utils.ts), the two *)
(* transports ZKLibTCP / ZKLibUDP (request/response state machine, bulk    *)
(* reads, real-time events) and the ZKLib facade (TCP -> UDP fallback).    *)
(***************************************************************************)
EXTENDS Integers, Sequences, FiniteSets, TLC

(* ------------------------------------------------------------------ *)
(* Bounds of the model                                                 *)
(* ------------------------------------------------------------------ *)

\* number of operations the caller starts after connect()
MaxOps == 1
\* the same, in the specifications about several operations on one socket
MaxRaceOps == 2
\* number of real-time event frames the device emits
MaxEvents == 1
\* chunk size of a bulk transfer, scaled down from the device's value
MAX_CHUNK == 3
\* number of createSocket calls on one facade
MaxSockets == 2
\* number of operations called on one facade
MaxFacadeOps == 2
\* number of datagrams the network duplicates
MaxDups == 1
\* size of a user / attendance record, scaled down from the device's
\* 72 and 40 bytes (TCP), 28 and 16 bytes (UDP)
PACKET_SIZE == 1

(* ------------------------------------------------------------------ *)
(* Command table (constants.ts)                                        *)
(* ------------------------------------------------------------------ *)

USHRT_MAX == 65535
CMD_CONNECT == 1000
CMD_EXIT == 1001
CMD_GET_TIME == 201
CMD_PREPARE_DATA == 1500
CMD_DATA == 1501
CMD_FREE_DATA == 1502
CMD_DATA_WRRQ == 1503
CMD_DATA_RDY == 1504
CMD_ACK_OK == 2000
CMD_USER_WRQ == 8
CMD_REG_EVENT == 500
EF_ATTLOG == 1
MAX_ALLOWED_REPLY_ID == 100

GET_USERS == <<1, 9, 0, 5, 0, 0, 0, 0, 0, 0, 0>>
GET_ATTENDANCE_LOGS == <<1, 13, 0, 0, 0, 0, 0, 0, 0, 0, 0>>
GET_REAL_TIME_EVENT == <<1, 0, 0, 0>>

NULL == -1

(* ------------------------------------------------------------------ *)
(* Buffers: sequences of bytes, offsets counted from 0 as in Buffer    *)
(* ------------------------------------------------------------------ *)

Min(a, b) == IF a < b THEN a ELSE b

\* buf.subarray(a, b): clipped to the buffer
subarray(buf, a, b) == SubSeq(buf, Min(a, Len(buf)) + 1, Min(b, Len(buf)))

\* buf.subarray(a)
subarrayFrom(buf, a) == subarray(buf, a, Len(buf))

\* whether buf.readUIntLE(off, n) is in range (it throws otherwise)
canRead(buf, off, n) == off + n <= Len(buf)

RECURSIVE readUIntLE(_, _, _)
readUIntLE(buf, off, n) ==
  IF n = 0 THEN 0 ELSE buf[off + 1] + 256 * readUIntLE(buf, off + 1, n - 1)

writeUInt16LE(v) == <<v % 256, (v \div 256) % 256>>

\* whether buf.writeUInt16LE(v, off) takes v (it throws otherwise)
canWrite16(v) == v >= 0 /\ v <= 65535

writeUInt32LE(v) ==
  <<v % 256, (v \div 256) % 256, (v \div 65536) % 256, (v \div 16777216) % 256>>

\* buf with the two bytes at offset off replaced
patch16(buf, off, v) ==
  [i \in 1..Len(buf) |->
     IF i = off + 1 THEN v % 256
     ELSE IF i = off + 2 THEN (v \div 256) % 256
     ELSE buf[i]]

(* ------------------------------------------------------------------ *)
(* Codec (utils.ts)                                                    *)
(* ------------------------------------------------------------------ *)

RECURSIVE checkSumFrom(_, _, _)
checkSumFrom(buf, i, checkSum) ==
  IF i >= Len(buf) THEN checkSum
  ELSE IF i = Len(buf) - 1
       THEN checkSumFrom(buf, i + 2, (checkSum + buf[i + 1]) % USHRT_MAX)
       ELSE checkSumFrom(buf, i + 2,
                         (checkSum + readUIntLE(buf, i, 2)) % USHRT_MAX)

createCheckSum(buf) == USHRT_MAX - checkSumFrom(buf, 0, 0) - 1

\* sessionId! of a transport that never connected is written as 0
sidField(sessionId) == IF sessionId = NULL THEN 0 ELSE sessionId

createUDPHeader(command, sessionId, replyId, data) ==
  LET buf0 == writeUInt16LE(command) \o <<0, 0>>
                \o writeUInt16LE(sidField(sessionId))
                \o writeUInt16LE(replyId) \o data
      buf1 == patch16(buf0, 2, createCheckSum(buf0))
  IN  patch16(buf1, 6, (replyId + 1) % USHRT_MAX)

createTCPHeaderFixedLength(command, sessionId, replyId, data) ==
  <<80, 80, 130, 125, 19, 0, 0, 0>>
    \o createUDPHeader(command, sessionId, replyId, data)

createTCPHeader(command, sessionId, replyId, data) ==
  LET buf == createUDPHeader(command, sessionId, replyId, data)
      prefixBuf == patch16(<<80, 80, 130, 125, 19, 0, 0, 0>>, 4, Len(buf))
  IN  prefixBuf \o buf

TCP_HEADER_SIGNATURE == <<80, 80, 130, 125>>

removeTcpHeader(buf) ==
  IF Len(buf) < 8 THEN buf
  ELSE IF subarray(buf, 0, 4) # TCP_HEADER_SIGNATURE THEN buf
  ELSE subarrayFrom(buf, 8)

\* decodeUDPHeader(header).commandId
udpCommandId(header) == readUIntLE(header, 0, 2)

\* decodeTCPHeader(header).commandId
tcpCommandId(header) == readUIntLE(header, 8, 2)

\* TRUE when the frame IS a real-time event (the name is the source's)
checkNotEventTCP(data) ==
  LET d == removeTcpHeader(data)
  IN  IF ~canRead(d, 4, 2) THEN FALSE
      ELSE readUIntLE(d, 4, 2) = EF_ATTLOG /\ readUIntLE(d, 0, 2) = CMD_REG_EVENT

checkNotEventUDP(data) ==
  canRead(data, 0, 2) /\ udpCommandId(subarray(data, 0, 8)) = CMD_REG_EVENT

(* ------------------------------------------------------------------ *)
(* State                                                               *)
(* ------------------------------------------------------------------ *)

VARIABLES
  tr,          \* the transport this behaviour exercises: "tcp" or "udp"
  timeout,     \* the constructor's timeout argument
  socket,      \* this.socket: "open", "ending" (end / close called) or
               \* "null"
  sessionId,   \* this.sessionId (NULL before the first CONNECT)
  replyId,     \* this.replyId
  listeners,   \* the socket's "data" / "message" listeners, in order
  ops,         \* the operations the caller started, with their closures
  wire,        \* frames on their way from the device to the client
  dev,         \* the device and the network: its session, event
               \* registration, data, and the datagrams duplicated
  rtCalls,     \* invocations of the real-time callbacks: whose, with what
  lastSent,    \* the last frame written to the socket, as built
  limit,       \* how many operations the caller starts after connect()
  awaits,      \* whether the caller awaits each operation before the next
  connectionType,  \* ZKLib.connectionType: "tcp", "udp" or "null"
  zklibTcp,    \* the facade's TCP transport: its socket reference, session,
               \* request counter and the number of frames it wrote
  zklibUdp,    \* the facade's UDP transport
  call,        \* the facade's createSocket call in progress
  outcome,     \* how the last createSocket call ended
  dispatch,    \* where the last facade operation went
  codec        \* the last call of a utils.ts function made directly: which
               \* function, its arguments and what it returned

transportVars == <<tr, timeout, socket, sessionId, replyId, listeners, ops,
                   wire, dev, rtCalls, lastSent, limit, awaits>>

facadeVars == <<connectionType, zklibTcp, zklibUdp, call, outcome, dispatch>>

vars == <<transportVars, facadeVars, codec>>

Transports == {"tcp", "udp"}
OpIds == DOMAIN ops
\* commands the caller passes to executeCmd
Cmds == {CMD_CONNECT, CMD_GET_TIME}
\* total sizes the device announces for a bulk read
Sizes == 1..(2 * MAX_CHUNK + 1)
DevSessionId == 21930

\* an operation slot nobody started yet
NoOp ==
  [kind |-> "none", cmd |-> 0,
   st |-> "new",          \* the operation's promise: new, pending, ok, err
   inner |-> "none",      \* the writeMessage / requestData promise
   request |-> <<>>,      \* the frame writeMessage was given to write
   timer |-> "none",      \* the closure's armed timer
   reply |-> <<>>, err |-> "", mode |-> 0,
   response |-> <<>>,     \* readWithBuffer's first response
   replyBuffer |-> <<>>, totalBuffer |-> <<>>, realTotalBuffer |-> <<>>,
   replyData |-> <<>>, size |-> 0, remain |-> 0, numberChunks |-> 0,
   totalPackets |-> 0, progress |-> <<>>,
   closeListener |-> FALSE,   \* the closure listens for the socket's close
   args |-> <<>>,         \* the arguments setUser was called with
   phase |-> "none",      \* where getUsers / getAttendances / disconnect,
                          \* which await the operations in the next slots,
                          \* stand
   result |-> [st |-> "none", data |-> <<>>, err |-> ""]]   \* and return

\* the state the handlers read and write, threaded through one event
State ==
  [socket |-> socket,
   sessionId |-> sessionId, replyId |-> replyId, listeners |-> listeners,
   ops |-> ops, wire |-> wire, dev |-> dev, rtCalls |-> rtCalls,
   lastSent |-> lastSent, micro |-> <<>>,
   thrown |-> FALSE]      \* an exception left the running function

Commit(s) ==
  /\ socket' = s.socket
  /\ sessionId' = s.sessionId
  /\ replyId' = s.replyId
  /\ listeners' = s.listeners
  /\ ops' = s.ops
  /\ wire' = s.wire
  /\ dev' = s.dev
  /\ rtCalls' = s.rtCalls
  /\ lastSent' = s.lastSent
  /\ UNCHANGED <<tr, timeout, limit, awaits>>
  /\ UNCHANGED <<facadeVars, codec>>

(* ------------------------------------------------------------------ *)
(* The device                                                          *)
(* ------------------------------------------------------------------ *)

\* byte i (from 0) of the data set the device serves
DataByte(i) == 200 + (i % 50)

DataRange(start, size) == [k \in 1..size |-> DataByte(start + k - 1)]

\* a frame as the device puts it on the wire
devFrame(command, sid, rid, payload) ==
  LET inner == writeUInt16LE(command) \o <<0, 0>> \o writeUInt16LE(sid)
                 \o writeUInt16LE(rid) \o payload
  IN  IF tr = "tcp"
      THEN TCP_HEADER_SIGNATURE \o writeUInt32LE(Len(inner)) \o inner
      ELSE inner

\* the real-time attendance record: 52-byte layout on TCP, 18 bytes on UDP
eventFrame ==
  IF tr = "tcp"
  THEN devFrame(CMD_REG_EVENT, EF_ATTLOG, 0,
                <<49, 50, 0, 0, 0, 0, 0, 0, 0>> \o [k \in 1..17 |-> 0]
                  \o <<23, 7, 14, 9, 30, 45>>)
  ELSE devFrame(CMD_REG_EVENT, EF_ATTLOG, 0,
                <<7, 0, 0, 0, 23, 7, 14, 9, 30, 45>>)

\* what the device answers to one frame of the client
deviceAnswers(d, inner) ==
  LET command == readUIntLE(inner, 0, 2)
      rid == readUIntLE(inner, 6, 2)
      body == subarrayFrom(inner, 8)
  IN  CASE command = CMD_CONNECT ->
             << devFrame(CMD_ACK_OK, DevSessionId, rid, <<>>) >>
        [] command = CMD_GET_TIME ->
             << devFrame(CMD_ACK_OK, d.sid, rid, writeUInt32LE(347241615)) >>
        [] command = CMD_DATA_WRRQ ->
             IF d.answer # 0
             THEN << devFrame(d.answer, d.sid, rid,
                              IF d.size = 0 THEN <<>>
                              ELSE <<0>> \o writeUInt32LE(d.size)) >>
             ELSE IF d.inline
             THEN << devFrame(CMD_DATA, d.sid, rid, DataRange(0, d.size)) >>
             ELSE << devFrame(CMD_PREPARE_DATA, d.sid, rid,
                              <<0>> \o writeUInt32LE(d.size)) >>
        [] command = CMD_DATA_RDY ->
             LET start == readUIntLE(body, 0, 4)
                 size == readUIntLE(body, 4, 4)
             IN  << devFrame(CMD_PREPARE_DATA, d.sid, rid,
                             writeUInt32LE(size) \o <<0, 0, 0, 0>>),
                    devFrame(CMD_DATA, d.sid, rid, DataRange(start, size)),
                    devFrame(CMD_ACK_OK, d.sid, rid, <<>>) >>
        [] OTHER -> << devFrame(CMD_ACK_OK, d.sid, rid, <<>>) >>

\* asked: the ranges the CMD_DATA_RDY requests named since the last
\* CMD_DATA_WRRQ
deviceAfter(d, inner) ==
  LET command == readUIntLE(inner, 0, 2)
  IN  CASE command = CMD_CONNECT -> [d EXCEPT !.sid = DevSessionId]
        [] command = CMD_REG_EVENT -> [d EXCEPT !.registered = TRUE]
        [] command = CMD_DATA_WRRQ -> [d EXCEPT !.asked = <<>>]
        [] command = CMD_DATA_RDY ->
             [d EXCEPT !.asked =
                Append(@, [start |-> readUIntLE(inner, 8, 4),
                           size |-> readUIntLE(inner, 12, 4)])]
        [] OTHER -> d

\* socket.write / socket.send: the frame reaches the device, which answers
socketWrite(s, buf) ==
  LET inner == IF tr = "tcp" THEN removeTcpHeader(buf) ELSE buf
  IN  [s EXCEPT !.lastSent = buf,
                !.wire = @ \o deviceAnswers(s.dev, inner),
                !.dev = deviceAfter(@, inner)]

(* ------------------------------------------------------------------ *)
(* Promises, listeners                                                 *)
(* ------------------------------------------------------------------ *)

\* resolve(data) of the writeMessage / requestData promise: the awaiting
\* code continues once the running event handlers are through
resolveInner(s, i, data) ==
  IF s.ops[i].inner # "pending" THEN s
  ELSE [s EXCEPT !.ops[i].inner = "ok",
                 !.micro = Append(@, [op |-> i, ok |-> TRUE, val |-> data,
                                      err |-> ""])]

rejectInner(s, i, e) ==
  IF s.ops[i].inner # "pending" THEN s
  ELSE [s EXCEPT !.ops[i].inner = "err",
                 !.micro = Append(@, [op |-> i, ok |-> FALSE, val |-> <<>>,
                                      err |-> e])]

\* resolve({data, err}) / reject(err) of the operation's own promise
resolveOp(s, i, data, e, mode) ==
  IF s.ops[i].st # "pending" THEN s
  ELSE [s EXCEPT !.ops[i].st = "ok", !.ops[i].reply = data,
                 !.ops[i].err = e, !.ops[i].mode = mode]

rejectOp(s, i, e) ==
  IF s.ops[i].st # "pending" THEN s
  ELSE [s EXCEPT !.ops[i].st = "err", !.ops[i].err = e]

addListener(s, k, i) ==
  [s EXCEPT !.listeners = Append(@, [k |-> k, op |-> i])]

removeListener(s, k, i) ==
  [s EXCEPT !.listeners = SelectSeq(@, LAMBDA l : ~(l.k = k /\ l.op = i))]

(* ------------------------------------------------------------------ *)
(* writeMessage, executeCmd                                            *)
(* ------------------------------------------------------------------ *)

\* once("data" / "message", ...), write, and the write callback's timer.
\* Without a socket the UDP transport throws; the TCP one (this.socket?.)
\* does nothing and its promise stays pending
writeMessage(s, i, msg, connect) ==
  LET s0 == [s EXCEPT !.ops[i].inner = "pending", !.ops[i].request = msg]
      s1 == addListener(s0, "write", i)
      s2 == socketWrite(s1, msg)
  IN  IF s.socket = "null"
      THEN IF tr = "udp" THEN rejectInner(s0, i, "Socket is not initialized")
           ELSE s0
      ELSE [s2 EXCEPT !.ops[i].timer =
                         IF timeout # 0 THEN "write" ELSE "none"]

\* the one-shot listener of writeMessage
onWriteData(s, i, data) ==
  resolveInner([s EXCEPT !.ops[i].timer = "none"], i, data)

\* the timer of writeMessage: UDP detaches its listener, TCP does not
onWriteTimeout(s, i) ==
  LET s1 == [s EXCEPT !.ops[i].timer = "none"]
      s2 == IF tr = "udp" THEN removeListener(s1, "write", i) ELSE s1
  IN  rejectInner(s2, i, "TIMEOUT_ON_WRITING_MESSAGE")

\* executeCmd that builds the frame without counting the request
executeCmdSameReplyId(s, i, command, data) ==
  LET s1 == IF command = CMD_CONNECT
            THEN [s EXCEPT !.sessionId = 0, !.replyId = 0]
            ELSE s
      buf == IF tr = "tcp"
             THEN createTCPHeader(command, s1.sessionId, s1.replyId, data)
             ELSE createUDPHeader(command, s1.sessionId, s1.replyId, data)
  IN  writeMessage(s1, i, buf,
                   command = CMD_CONNECT \/ command = CMD_EXIT)

\* a replyId the header cannot hold makes the frame builder throw: the
\* promise is rejected and nothing is written
executeCmd(s, i, command, data) ==
  LET s1 == IF command = CMD_CONNECT
            THEN [s EXCEPT !.sessionId = 0, !.replyId = 0]
            ELSE [s EXCEPT !.replyId = @ + 1]
      buf == IF tr = "tcp"
             THEN createTCPHeader(command, s1.sessionId, s1.replyId, data)
             ELSE createUDPHeader(command, s1.sessionId, s1.replyId, data)
  IN  IF ~canWrite16(s1.replyId) THEN rejectOp(s1, i, "ERR_OUT_OF_RANGE")
      ELSE writeMessage(s1, i, buf,
                        command = CMD_CONNECT \/ command = CMD_EXIT)

\* executeCmd taking the session from the reply-id field of the reply
executeCmdThenReplyField(s, i, m) ==
  LET command == s.ops[i].cmd
      rReply == IF tr = "tcp" THEN removeTcpHeader(m.val) ELSE m.val
  IN  IF ~m.ok THEN rejectOp(s, i, m.err)
      ELSE IF Len(rReply) > 0 /\ command = CMD_CONNECT
      THEN resolveOp([s EXCEPT !.sessionId = readUIntLE(rReply, 6, 2)],
                     i, rReply, "", 0)
      ELSE resolveOp(s, i, rReply, "", 0)

\* executeCmd after writeMessage settled
executeCmdThen(s, i, m) ==
  LET command == s.ops[i].cmd
      rReply == IF tr = "tcp" THEN removeTcpHeader(m.val) ELSE m.val
  IN  IF ~m.ok THEN rejectOp(s, i, m.err)
      ELSE IF Len(rReply) > 0 /\ command = CMD_CONNECT
      THEN IF canRead(rReply, 4, 2)
           THEN resolveOp([s EXCEPT !.sessionId = readUIntLE(rReply, 4, 2)],
                          i, rReply, "", 0)
           ELSE rejectOp(s, i, "ERR_OUT_OF_RANGE")
      ELSE resolveOp(s, i, rReply, "", 0)

(* ------------------------------------------------------------------ *)
(* requestData, readWithBuffer, chunked reassembly                     *)
(* ------------------------------------------------------------------ *)

\* on("data" / "message", handleOnData), write, and the write callback's
\* timer (armed whatever this.timeout is)
requestData(s, i, msg) ==
  LET s0 == [s EXCEPT !.ops[i].inner = "pending"]
      s1 == addListener(s0, "request", i)
      s2 == socketWrite(s1, msg)
  IN  IF s.socket = "null"
      THEN IF tr = "udp" THEN rejectInner(s0, i, "Socket is not initialized")
           ELSE s0
      ELSE [s2 EXCEPT !.ops[i].timer = "reqAfter"]

\* requestData's internalCallback
requestDone(s, i, data) ==
  resolveInner(removeListener([s EXCEPT !.ops[i].timer = "none"],
                              "request", i), i, data)

\* ZKLibTCP.requestData.handleOnData
tcpRequestOnData(s, i, data) ==
  LET replyBuffer == s.ops[i].replyBuffer \o data
      s1 == [s EXCEPT !.ops[i].replyBuffer = replyBuffer]
  IN  IF checkNotEventTCP(data) THEN s1
      ELSE IF tcpCommandId(subarray(replyBuffer, 0, 16)) = CMD_DATA
      THEN [s1 EXCEPT !.ops[i].timer = "collect"]
      ELSE IF readUIntLE(data, 4, 2) > 8
      THEN requestDone(s1, i, data)
      ELSE [s1 EXCEPT !.ops[i].timer = "reqRecv"]

\* ZKLibUDP.requestData.handleOnData
udpRequestOnData(s, i, data) ==
  IF checkNotEventUDP(data) THEN s
  ELSE IF Len(data) >= 13 THEN requestDone(s, i, data)
  ELSE [s EXCEPT !.ops[i].timer = "reqRecv"]

\* the timers of requestData
onRequestTimeout(s, i) ==
  LET k == s.ops[i].timer
      s1 == [s EXCEPT !.ops[i].timer = "none"]
      s2 == IF tr = "udp" THEN removeListener(s1, "request", i) ELSE s1
  IN  IF k = "collect" THEN requestDone(s1, i, s.ops[i].replyBuffer)
      ELSE IF k = "reqAfter"
      THEN rejectInner(s2, i,
                       "TIMEOUT_IN_RECEIVING_RESPONSE_AFTER_REQUESTING_DATA")
      ELSE rejectInner(s2, i, "TIMEOUT_ON_RECEIVING_REQUEST_DATA")

sendChunkRequest(s, start, size) ==
  LET s1 == [s EXCEPT !.replyId = @ + 1]
      reqData == writeUInt32LE(start) \o writeUInt32LE(size)
      buf == IF tr = "tcp"
             THEN createTCPHeader(CMD_DATA_RDY, s1.sessionId, s1.replyId,
                                  reqData)
             ELSE createUDPHeader(CMD_DATA_RDY, s1.sessionId, s1.replyId,
                                  reqData)
  IN  IF s.thrown \/ (s.socket = "null" /\ tr = "udp") THEN s
      ELSE IF ~canWrite16(s1.replyId) THEN [s1 EXCEPT !.thrown = TRUE]
      ELSE socketWrite(s1, buf)

RECURSIVE sendChunksWithoutLast(_, _, _, _)
sendChunksWithoutLast(s, j, numberChunks, remain) ==
  IF j >= numberChunks THEN s
  ELSE sendChunksWithoutLast(sendChunkRequest(s, j * MAX_CHUNK, MAX_CHUNK),
                             j + 1, numberChunks, remain)

\* for (let i = 0; i <= numberChunks; i++) ...
RECURSIVE sendChunks(_, _, _, _)
sendChunks(s, j, numberChunks, remain) ==
  IF j > numberChunks THEN s
  ELSE IF j = numberChunks
  THEN sendChunks(sendChunkRequest(s, numberChunks * MAX_CHUNK, remain),
                  j + 1, numberChunks, remain)
  ELSE sendChunks(sendChunkRequest(s, j * MAX_CHUNK, MAX_CHUNK),
                  j + 1, numberChunks, remain)

\* the ACK_OK / PREPARE_DATA case: arm the idle timer, listen, request.
\* When a chunk request throws, the loop ends there: the UDP promise is
\* rejected, the TCP one is left to its timer
chunkedReceive(s, i, recvData) ==
  LET size == readUIntLE(recvData, 1, 4)
      remain == size % MAX_CHUNK
      numberChunks == (size - remain) \div MAX_CHUNK
      totalPackets == numberChunks + (IF remain > 0 THEN 1 ELSE 0)
      s1 == [s EXCEPT !.ops[i].size = size, !.ops[i].remain = remain,
                      !.ops[i].numberChunks = numberChunks,
                      !.ops[i].totalPackets = totalPackets,
                      !.ops[i].timer = "chunk",
                      !.ops[i].closeListener =
                         (tr = "tcp" /\ s.socket # "null")]
      s2 == sendChunks(addListener(s1, "chunk", i), 0, numberChunks, remain)
      s3 == [s2 EXCEPT !.thrown = FALSE]
  IN  IF ~canRead(recvData, 1, 4) THEN s
      ELSE IF s2.thrown /\ tr = "udp" THEN rejectOp(s3, i, "ERR_OUT_OF_RANGE")
      ELSE s3

\* the key of COMMANDS holding this value
exportErrorMessage(commandValue) ==
  CASE commandValue = CMD_CONNECT -> "CMD_CONNECT"
    [] commandValue = CMD_EXIT -> "CMD_EXIT"
    [] commandValue = CMD_GET_TIME -> "CMD_GET_TIME"
    [] commandValue = CMD_PREPARE_DATA -> "CMD_PREPARE_DATA"
    [] commandValue = CMD_DATA -> "CMD_DATA"
    [] commandValue = CMD_FREE_DATA -> "CMD_FREE_DATA"
    [] commandValue = CMD_DATA_WRRQ -> "CMD_DATA_WRRQ"
    [] commandValue = CMD_DATA_RDY -> "CMD_DATA_RDY"
    [] commandValue = CMD_ACK_OK -> "CMD_ACK_OK"
    [] commandValue = CMD_USER_WRQ -> "CMD_USER_WRQ"
    [] commandValue = CMD_REG_EVENT -> "CMD_REG_EVENT"
    [] OTHER -> "AN UNKNOWN ERROR"

\* when the frame builder throws, the UDP promise is rejected and the TCP
\* one (an async executor) is never settled
readWithBuffer(s, i, reqData) ==
  LET s1 == [s EXCEPT !.replyId = @ + 1]
      buf == IF tr = "tcp"
             THEN createTCPHeader(CMD_DATA_WRRQ, s1.sessionId, s1.replyId,
                                  reqData)
             ELSE createUDPHeader(CMD_DATA_WRRQ, s1.sessionId, s1.replyId,
                                  reqData)
  IN  IF canWrite16(s1.replyId) THEN requestData(s1, i, buf)
      ELSE IF tr = "udp" THEN rejectOp(s1, i, "ERR_OUT_OF_RANGE")
      ELSE s1

\* readWithBuffer after requestData settled
readWithBufferThen(s, i, m) ==
  LET reply == m.val
      hdr == IF tr = "tcp" THEN 16 ELSE 8
      commandId == IF tr = "tcp" THEN tcpCommandId(subarray(reply, 0, 16))
                   ELSE udpCommandId(subarray(reply, 0, 8))
      s1 == [s EXCEPT !.ops[i].response = reply]
  IN  IF ~m.ok THEN rejectOp(s, i, m.err)
      ELSE IF commandId = CMD_DATA
      THEN resolveOp(s1, i, subarrayFrom(reply, hdr), "",
                     IF tr = "tcp" THEN 8 ELSE 0)
      ELSE IF commandId = CMD_ACK_OK \/ commandId = CMD_PREPARE_DATA
      THEN chunkedReceive(s1, i, subarrayFrom(reply, hdr))
      ELSE rejectOp(s1, i, "ERROR_IN_UNHANDLE_CMD "
                             \o exportErrorMessage(commandId))

\* the chunked receive's internalCallback (TCP): the listener stays
chunkDone(s, i, e) ==
  resolveOp([s EXCEPT !.ops[i].timer = "none"], i, s.ops[i].replyData, e, 0)

\* ZKLibTCP.readWithBuffer.handleOnData; totalBuffer.readUIntLE(4, 2)
\* throws on fewer than 6 bytes, which ends the handler with the bytes
\* kept in totalBuffer
tcpChunkOnData(s, i, reply) ==
  LET o == s.ops[i]
      totalBuffer == o.totalBuffer \o reply
      packetLength == readUIntLE(totalBuffer, 4, 2)
      realTotalBuffer ==
        o.realTotalBuffer \o subarray(totalBuffer, 16, 8 + packetLength)
      complete ==
        \/ o.totalPackets > 1 /\ Len(realTotalBuffer) = MAX_CHUNK + 8
        \/ o.totalPackets = 1 /\ Len(realTotalBuffer) = o.remain + 8
      replyData == o.replyData \o subarrayFrom(realTotalBuffer, 8)
      s1 == [s EXCEPT !.ops[i].timer = "chunkIdle"]
  IN  IF checkNotEventTCP(reply) THEN s
      ELSE IF ~canRead(totalBuffer, 4, 2)
                \/ Len(totalBuffer) < 8 + packetLength
      THEN [s1 EXCEPT !.ops[i].totalBuffer = totalBuffer]
      ELSE IF ~complete
      THEN [s1 EXCEPT !.ops[i].realTotalBuffer = realTotalBuffer,
                      !.ops[i].totalBuffer =
                         subarrayFrom(totalBuffer, 8 + packetLength)]
      ELSE LET s2 == [s1 EXCEPT !.ops[i].replyData = replyData,
                                !.ops[i].totalBuffer = <<>>,
                                !.ops[i].realTotalBuffer = <<>>,
                                !.ops[i].totalPackets = @ - 1,
                                !.ops[i].progress = Append(@, Len(replyData))]
           IN  IF s2.ops[i].totalPackets <= 0 THEN chunkDone(s2, i, "")
               ELSE s2

\* ZKLibUDP.handlePreparedData.handleOnData
udpChunkOnData(s, i, reply) ==
  LET o == s.ops[i]
      commandId == udpCommandId(reply)
      totalBuffer == o.totalBuffer \o subarrayFrom(reply, 8)
      s1 == [s EXCEPT !.ops[i].timer = "chunkIdle"]
  IN  IF checkNotEventUDP(reply) THEN s
      ELSE IF commandId = CMD_DATA
      THEN [s1 EXCEPT !.ops[i].totalBuffer = totalBuffer,
                      !.ops[i].progress = Append(@, Len(totalBuffer))]
      ELSE IF commandId = CMD_ACK_OK
      THEN IF Len(o.totalBuffer) = o.size
           THEN resolveOp(s1, i, o.totalBuffer, "", 0)
           ELSE s1
      ELSE IF commandId = CMD_PREPARE_DATA THEN s1
      ELSE resolveOp(s1, i, <<>>,
                     "ERROR_IN_UNHANDLE_CMD " \o exportErrorMessage(commandId),
                     0)

\* the timers of the chunked receive rejecting the promise
onChunkTimeoutRejects(s, i) ==
  rejectOp([s EXCEPT !.ops[i].timer = "none"], i,
           "TIMEOUT WHEN RECEIVING PACKET")

\* the timers of the chunked receive: the one armed before the first
\* frame, and the one every frame re-arms
onChunkTimeout(s, i) ==
  LET e == IF s.ops[i].timer = "chunk" THEN "TIMEOUT WHEN RECEIVING PACKET"
           ELSE IF tr = "tcp" THEN "TIME OUT !! PACKETS REMAIN !"
           ELSE "TIMEOUT!! % REMAIN!"
  IN  IF tr = "tcp" THEN chunkDone(s, i, e)
      ELSE resolveOp([s EXCEPT !.ops[i].timer = "none"], i,
                     s.ops[i].totalBuffer, e, 0)

(* ------------------------------------------------------------------ *)
(* Real-time events                                                    *)
(* ------------------------------------------------------------------ *)

\* the arguments parseTimeToDate passes to new Date(...)
parseTimeToDateDayFromZero(time) ==
  LET second == time % 60
      t1 == (time - second) \div 60
      minute == t1 % 60
      t2 == (t1 - minute) \div 60
      hour == t2 % 24
      t3 == (t2 - hour) \div 24
      day == t3 % 31
      t4 == (t3 - day) \div 31
      month == t4 % 12
      t5 == (t4 - month) \div 12
  IN  [year |-> t5 + 2000, month |-> month, day |-> day, hour |-> hour,
       minute |-> minute, second |-> second]

parseTimeToDate(time) ==
  LET second == time % 60
      t1 == (time - second) \div 60
      minute == t1 % 60
      t2 == (t1 - minute) \div 60
      hour == t2 % 24
      t3 == (t2 - hour) \div 24
      day == (t3 % 31) + 1
      t4 == (t3 - (day - 1)) \div 31
      month == t4 % 12
      t5 == (t4 - month) \div 12
  IN  [year |-> t5 + 2000, month |-> month, day |-> day, hour |-> hour,
       minute |-> minute, second |-> second]

\* buf.toString("ascii").split("\0").shift()
RECURSIVE cstr(_)
cstr(buf) ==
  IF buf = <<>> \/ Head(buf) = 0 THEN <<>>
  ELSE <<Head(buf) % 128>> \o cstr(Tail(buf))

parseHexToTime(hex) ==
  [year |-> 2000 + hex[1], month |-> hex[2] - 1, date |-> hex[3],
   hour |-> hex[4], minute |-> hex[5], second |-> hex[6]]

decodeUserData72(userData) ==
  [uid |-> readUIntLE(userData, 0, 2),
   role |-> readUIntLE(userData, 2, 1),
   password |-> cstr(subarray(userData, 3, 3 + 8)),
   name |-> cstr(subarrayFrom(userData, 11)),
   cardno |-> readUIntLE(userData, 35, 4),
   userId |-> cstr(subarray(userData, 48, 48 + 9))]

decodeRecordRealTimeLog52(recordData) ==
  LET recvData == subarrayFrom(removeTcpHeader(recordData), 8)
  IN  [userId |-> cstr(subarray(recvData, 0, 9)),
       attTime |-> parseHexToTime(subarray(recvData, 26, 32))]

decodeRecordRealTimeLog18(recordData) ==
  [userId |-> readUIntLE(recordData, 8, 1),
   attTime |-> parseHexToTime(subarray(recordData, 12, 18))]

\* the persistent listener getRealTimeLogs installs
tcpRealTimeOnData(s, i, data) ==
  IF ~checkNotEventTCP(data) THEN s
  ELSE IF Len(data) > 16
  THEN [s EXCEPT !.rtCalls =
                    Append(@, [cb |-> i, log |-> decodeRecordRealTimeLog52(data)])]
  ELSE s

udpRealTimeOnData(s, i, data) ==
  IF ~checkNotEventUDP(data) THEN s
  ELSE IF Len(data) = 18
  THEN [s EXCEPT !.rtCalls =
                    Append(@, [cb |-> i, log |-> decodeRecordRealTimeLog18(data)])]
  ELSE s

tcpGetRealTimeLogs(s, i) ==
  LET s1 == [s EXCEPT !.replyId =
                         IF @ + 1 > MAX_ALLOWED_REPLY_ID THEN 0 ELSE @ + 1]
      buf == createTCPHeader(CMD_REG_EVENT, s1.sessionId, s1.replyId,
                             <<1, 0, 0, 0>>)
      s2 == socketWrite(s1, buf)
      s3 == IF Len(s2.listeners) = 0 THEN addListener(s2, "rt", i) ELSE s2
  IN  [s3 EXCEPT !.ops[i].st = "ok"]

udpGetRealTimeLogs(s, i) ==
  LET s1 == [s EXCEPT !.replyId = @ + 1]
      buf == createUDPHeader(CMD_REG_EVENT, s1.sessionId, s1.replyId,
                             GET_REAL_TIME_EVENT)
      s2 == socketWrite(s1, buf)
      s3 == IF Len(s2.listeners) < 2 THEN addListener(s2, "rt", i) ELSE s2
  IN  IF ~canWrite16(s1.replyId)
      THEN [s1 EXCEPT !.ops[i].st = "err", !.ops[i].err = "ERR_OUT_OF_RANGE"]
      ELSE [s3 EXCEPT !.ops[i].st = "ok"]

(* ------------------------------------------------------------------ *)
(* getUsers, getAttendances, disconnect: operations that await others  *)
(* ------------------------------------------------------------------ *)

Composite == {"users", "attendances", "disconnect", "setUser"}

\* the operation a caller's function starts in slot c and awaits
child(s, c, kind, command) ==
  [s EXCEPT !.ops[c] = [NoOp EXCEPT !.kind = kind, !.cmd = command,
                                     !.st = "pending"]]

freeData(s, c) ==
  executeCmd(child(s, c, "exec", CMD_FREE_DATA), c, CMD_FREE_DATA, <<>>)

\* the function in slot i throws e / returns {data, err}
throw(s, i, e) ==
  [s EXCEPT !.ops[i].phase = "done", !.ops[i].st = "err",
            !.ops[i].result = [st |-> "err", data |-> <<>>, err |-> e]]

returns(s, i, data, e) ==
  [s EXCEPT !.ops[i].phase = "done", !.ops[i].st = "ok",
            !.ops[i].timer = "none",
            !.ops[i].result = [st |-> "ok", data |-> data, err |-> e]]

\* while (data.length >= SIZE) { push(decode(data.subarray(0, SIZE))); ... }
\* with each record standing for its bytes
RECURSIVE records(_)
records(buf) ==
  IF Len(buf) < PACKET_SIZE THEN <<>>
  ELSE <<subarray(buf, 0, PACKET_SIZE)>>
         \o records(subarrayFrom(buf, PACKET_SIZE))

\* the tail of getUsers / getAttendances: the TCP transport returns
\* { data }, the UDP one { data, err: data.err }
bulkReturn(s, i) ==
  LET data == s.ops[i + 2]
  IN  returns(s, i, records(subarrayFrom(data.reply, 4)),
              IF tr = "udp" THEN data.err ELSE "")

\* await this.readWithBuffer(REQUEST_DATA...)
bulkRead(s, i) ==
  readWithBuffer(child([s EXCEPT !.ops[i].phase = "read"], i + 2, "read",
                       CMD_DATA_WRRQ),
                 i + 2,
                 IF s.ops[i].kind = "users" THEN GET_USERS
                 ELSE GET_ATTENDANCE_LOGS)

\* the second handleBufferFreeing / executeFreeData
bulkFree(s, i) ==
  IF s.socket # "null" THEN freeData([s EXCEPT !.ops[i].phase = "free2"], i + 3)
  ELSE bulkReturn(s, i)

\* getUsers / getAttendances up to the first await
getBulk(s, i, kind) ==
  LET s1 == [s EXCEPT !.ops[i] = [NoOp EXCEPT !.kind = kind, !.st = "pending",
                                               !.phase = "free1"]]
  IN  IF s.socket # "null" THEN freeData(s1, i + 1) ELSE bulkRead(s1, i)

\* the slot of the operation the function in slot i awaits
awaited(o, i) ==
  CASE o.phase = "read" -> i + 2
    [] o.phase = "free2" -> i + 3
    [] OTHER -> i + 1

\* getUsers / getAttendances after the awaited operation settled
bulkThen(s, i) ==
  LET o == s.ops[i]
      c == s.ops[awaited(o, i)]
  IN  IF c.st = "err" THEN throw(s, i, c.err)
      ELSE CASE o.phase = "free1" -> bulkRead(s, i)
             [] o.phase = "read" -> bulkFree(s, i)
             [] OTHER -> bulkReturn(s, i)

\* disconnect() up to its await
disconnect(s, i) ==
  LET s1 == [s EXCEPT !.ops[i] = [NoOp EXCEPT !.kind = "disconnect",
                                               !.st = "pending",
                                               !.phase = "exit"]]
  IN  executeCmd(child(s1, i + 1, "exec", CMD_EXIT), i + 1, CMD_EXIT, <<>>)

\* closeSocket, called whether CMD_EXIT resolved or rejected: listeners
\* off, end() / close() with the resolving callback, and the 2000 ms
\* timer; the UDP transport returns true at once when it has no socket
closeSocket(s, i) ==
  LET s1 == [s EXCEPT !.ops[i].phase = "closing", !.ops[i].timer = "grace"]
  IN  IF s.socket = "null"
      THEN IF tr = "udp" THEN returns(s, i, <<>>, "") ELSE s1
      ELSE [s1 EXCEPT !.listeners = <<>>, !.socket = "ending"]

\* closeSocket's timer, or the callback of end() / close(): resolve(true)
onSocketClosure(s, i) == returns(s, i, <<>>, "")

\* ZKLibTCP.setUser up to its await; uid stands for parseInt(uid), the
\* strings userid (digits), name, password and cardno (digits) for their
\* characters. A write of a value outside 0..65535 throws, and the catch
\* rejects with "Failed to set user: " and the message
setUser(s, i, uid, userid, name, password, role, cardno) ==
  LET MAX_UID == 3000
      MAX_USERID_LENGTH == 9
      MAX_NAME_LENGTH == 24
      MAX_PASSWORD_LENGTH == 8
      MAX_CARDNO_LENGTH == 10
      RECURSIVE parseInt(_)
      parseInt(str) ==
        IF str = <<>> THEN 0
        ELSE 10 * parseInt(SubSeq(str, 1, Len(str) - 1)) + (str[Len(str)] - 48)
      RECURSIVE toString9(_)
      toString9(n) ==
        IF n < 9 THEN <<48 + n>> ELSE toString9(n \div 9) \o <<48 + (n % 9)>>
      write(buf, string, offset) ==
        [k \in 1..Len(buf) |->
           IF k > offset /\ k <= offset + Len(string) THEN string[k - offset]
           ELSE buf[k]]
      b1 == write([k \in 1..72 |-> 0], writeUInt16LE(uid), 0)
      b2 == write(b1, writeUInt16LE(role), 2)
      b3 == write(b2, subarray(password, 0, 8), 3)
      b4 == write(b3, subarray(name, 0, 24), 11)
      b5 == write(b4, writeUInt16LE(parseInt(cardno)), 35)
      b6 == write(b5, <<0, 0, 0, 0>>, 40)
      command_string ==
        write(b6, IF userid # <<>> THEN toString9(parseInt(userid))
                  ELSE <<>>, 48)
      s1 == [s EXCEPT !.ops[i] =
               [NoOp EXCEPT !.kind = "setUser", !.st = "pending",
                            !.phase = "write",
                            !.args = [uid |-> uid, userid |-> userid,
                                      name |-> name, password |-> password,
                                      role |-> role, cardno |-> cardno]]]
  IN  IF \/ uid = 0
         \/ uid > MAX_UID
         \/ Len(userid) > MAX_USERID_LENGTH
         \/ Len(name) > MAX_NAME_LENGTH
         \/ Len(password) > MAX_PASSWORD_LENGTH
         \/ Len(cardno) > MAX_CARDNO_LENGTH
      THEN throw(s1, i, "Failed to set user: Invalid input parameters")
      ELSE IF ~canWrite16(uid) \/ ~canWrite16(role)
                \/ ~canWrite16(parseInt(cardno))
      THEN throw(s1, i, "Failed to set user: ERR_OUT_OF_RANGE")
      ELSE executeCmd(child(s1, i + 1, "exec", CMD_USER_WRQ), i + 1,
                      CMD_USER_WRQ, command_string)

\* the functions whose awaited operation has settled
ready(s) ==
  {i \in DOMAIN s.ops :
     /\ s.ops[i].kind \in Composite
     /\ s.ops[i].phase \in {"free1", "read", "free2", "exit", "write"}
     /\ s.ops[awaited(s.ops[i], i)].st \in {"ok", "err"}}

resume(s, i) ==
  CASE s.ops[i].kind = "disconnect" -> closeSocket(s, i)
    [] s.ops[i].kind = "setUser" ->
         \* return await this.executeCmd(...), or the catch
         LET c == s.ops[i + 1]
         IN  IF c.st = "err"
             THEN throw(s, i, "Failed to set user: " \o c.err)
             ELSE returns(s, i, c.reply, "")
    [] OTHER -> bulkThen(s, i)

\* the socket's "close" event: createSocket's listener drops the
\* reference, the TCP chunked receives still listening resolve, and a
\* closeSocket in progress resolves
RECURSIVE onClose(_, _)
onClose(s, i) ==
  IF i > Len(s.ops) THEN s
  ELSE LET o == s.ops[i]
           s1 == [s EXCEPT !.socket = "null", !.ops[i].closeListener = FALSE]
       IN  onClose(IF o.closeListener
                   THEN chunkDone(s1, i, "Socket is disconnected unexpectedly")
                   ELSE IF o.phase = "closing" THEN onSocketClosure(s1, i)
                   ELSE s1,
                   i + 1)

(* ------------------------------------------------------------------ *)
(* One socket event: every listener runs, then the awaiting code       *)
(* ------------------------------------------------------------------ *)

\* one listener called with the frame
invoke(s, l, data) ==
  CASE l.k = "write" -> onWriteData(s, l.op, data)
    [] l.k = "request" ->
         IF tr = "tcp" THEN tcpRequestOnData(s, l.op, data)
         ELSE udpRequestOnData(s, l.op, data)
    [] l.k = "chunk" ->
         IF tr = "tcp" THEN tcpChunkOnData(s, l.op, data)
         ELSE udpChunkOnData(s, l.op, data)
    [] l.k = "rt" ->
         IF tr = "tcp" THEN tcpRealTimeOnData(s, l.op, data)
         ELSE udpRealTimeOnData(s, l.op, data)

\* emit: the listeners registered when the event fires, in their order
RECURSIVE emitTo(_, _, _)
emitTo(s, ls, data) ==
  IF ls = <<>> THEN s ELSE emitTo(invoke(s, Head(ls), data), Tail(ls), data)

emit(s, data) ==
  LET once == [s EXCEPT !.listeners = SelectSeq(@, LAMBDA l : l.k # "write")]
  IN  emitTo(once, s.listeners, data)

\* the code awaiting a settled promise
continue(s, m) ==
  IF s.ops[m.op].kind = "read" THEN readWithBufferThen(s, m.op, m)
  ELSE executeCmdThen(s, m.op, m)

RECURSIVE runMicro(_)
runMicro(s) ==
  IF s.micro # <<>>
  THEN runMicro(continue([s EXCEPT !.micro = Tail(@)], Head(s.micro)))
  ELSE IF ready(s) # {}
  THEN runMicro(resume(s, CHOOSE i \in ready(s) : TRUE))
  ELSE s

\* a timer of operation i fires
fire(s, i) ==
  CASE s.ops[i].timer = "write" -> onWriteTimeout(s, i)
    [] s.ops[i].timer = "grace" -> onSocketClosure(s, i)
    [] s.ops[i].timer \in {"chunk", "chunkIdle"} -> onChunkTimeout(s, i)
    [] OTHER -> onRequestTimeout(s, i)

(* ------------------------------------------------------------------ *)
(* Actions of the transport                                            *)
(* ------------------------------------------------------------------ *)

\* a transport after its constructor and createSocket, about to connect;
\* the caller will start n operations once connected
Unconnected(n) ==
  /\ socket = "open"
  /\ sessionId = NULL
  /\ replyId = 0
  /\ listeners = <<>>
  /\ limit = n
  /\ ops = [i \in 1..(n + 1) |-> NoOp]
  /\ wire = <<>>
  /\ dev = [sid |-> 0, registered |-> FALSE, events |-> 0,
            inline |-> FALSE, size |-> 0, dups |-> 0,
            answer |-> 0, asked |-> <<>>]
  /\ rtCalls = <<>>
  /\ lastSent = <<>>
  /\ codec = [fn |-> "none"]

Fresh(n) == timeout = 10000 /\ Unconnected(n)

NoError == [code |-> "", message |-> ""]

\* no createSocket call yet: where a call stands, what became of its TCP
\* and UDP attempts, and the facade as the call found it
NoCall ==
  [pc |-> "idle", n |-> 0,
   tcp |-> "none", tcpErr |-> NoError,
   udp |-> "none", udpErr |-> NoError,
   entry |-> [connectionType |-> "null", udpSocket |-> "null"]]

\* a facade after its constructor
NewFacade ==
  /\ connectionType = "null"
  /\ zklibTcp = [socket |-> "null", sessionId |-> NULL, replyId |-> 0,
                 sent |-> 0]
  /\ zklibUdp = [socket |-> "null", sessionId |-> NULL, replyId |-> 0,
                 sent |-> 0]
  /\ call = NoCall
  /\ outcome = [st |-> "none", command |-> "", err |-> NoError]
  /\ dispatch = [n |-> 0, udpCallback |-> FALSE, to |-> "", command |-> "",
                 err |-> NoError]

Init == tr \in Transports /\ awaits = FALSE /\ Fresh(MaxOps) /\ NewFacade

\* a transport nobody has called yet
InitFacade == tr = "tcp" /\ awaits = FALSE /\ Fresh(0) /\ NewFacade

InitRace ==
  tr \in Transports /\ awaits = FALSE /\ Fresh(MaxRaceOps) /\ NewFacade

InitAwait ==
  tr \in Transports /\ awaits = TRUE /\ Fresh(MaxRaceOps) /\ NewFacade

begin(i, kind, command) ==
  [State EXCEPT !.ops[i] = [NoOp EXCEPT !.kind = kind, !.cmd = command,
                                         !.st = "pending"]]

Connected == ops[1].st = "ok"

\* the caller may start operation i: the slots fill in order
Free(i) == /\ i > 1
           /\ ops[i].kind = "none"
           /\ ops[i - 1].kind # "none"
           /\ Connected
           /\ awaits => ops[i - 1].st \in {"ok", "err"}
           /\ socket = "open"

\* connect(): the first thing done on a fresh socket
Connect ==
  /\ ops[1].kind = "none"
  /\ socket = "open"
  /\ Commit(executeCmd(begin(1, "connect", CMD_CONNECT), 1, CMD_CONNECT, <<>>))

ExecuteCmd(i, command) ==
  /\ Free(i)
  /\ Commit(executeCmd(begin(i, "exec", command), i, command, <<>>))

\* the device holds n bytes for this request and answers inline or not
ReadWithBuffer(i, n, inline) ==
  /\ Free(i)
  /\ Commit(readWithBuffer(
              [begin(i, "read", CMD_DATA_WRRQ)
                 EXCEPT !.dev.size = n, !.dev.inline = inline],
              i, GET_USERS))

GetRealTimeLogs(i) ==
  /\ Free(i)
  /\ Commit(IF tr = "tcp"
            THEN tcpGetRealTimeLogs(begin(i, "rt", CMD_REG_EVENT), i)
            ELSE udpGetRealTimeLogs(begin(i, "rt", CMD_REG_EVENT), i))

\* the socket's "data" / "message" event for the next frame
Receive ==
  /\ wire # <<>>
  /\ socket = "open"
  /\ Commit(runMicro(emit([State EXCEPT !.wire = Tail(@)], Head(wire))))

\* an armed timer expires
Timeout(i) ==
  /\ ops[i].timer # "none"
  /\ Commit(runMicro(fire(State, i)))

\* the device reports an attendance punch to a registered client
DeviceEvent ==
  /\ dev.registered
  /\ dev.events < MaxEvents
  /\ wire' = Append(wire, eventFrame)
  /\ dev' = [dev EXCEPT !.events = @ + 1]
  /\ UNCHANGED <<tr, timeout, socket, sessionId, replyId, listeners, ops,
                 rtCalls, lastSent, limit, awaits>>
  /\ UNCHANGED <<facadeVars, codec>>

Next ==
  \/ Connect
  \/ \E i \in OpIds, c \in Cmds : ExecuteCmd(i, c)
  \/ \E i \in OpIds, n \in Sizes, inline \in BOOLEAN :
        ReadWithBuffer(i, n, inline)
  \/ \E i \in OpIds : GetRealTimeLogs(i)
  \/ Receive
  \/ \E i \in OpIds : Timeout(i)
  \/ DeviceEvent

\* one transport, connect() and then MaxOps operations
Spec == Init /\ [][Next]_vars

\* the same with MaxRaceOps operations, none awaited before the next starts
SpecRace == InitRace /\ [][Next]_vars

\* MaxRaceOps operations, each awaited before the next starts
SpecAwait == InitAwait /\ [][Next]_vars

\* numbers of requests a connected transport has behind it: none, and
\* those around the two values at which the counter is said to start over
Done == {0, MAX_ALLOWED_REPLY_ID - 1, MAX_ALLOWED_REPLY_ID,
         USHRT_MAX - 1, USHRT_MAX}

\* a transport that connected and then completed k executeCmd(GET_TIME),
\* each awaited; the caller will start MaxOps more operations
After(k) ==
  /\ timeout = 10000
  /\ socket = "open"
  /\ sessionId = DevSessionId
  /\ replyId = k
  /\ listeners = <<>>
  /\ limit = MaxOps
  /\ ops = [i \in 1..(MaxOps + 1) |->
              IF i = 1
              THEN [NoOp EXCEPT !.kind = "connect", !.cmd = CMD_CONNECT,
                                !.st = "ok", !.inner = "ok",
                                !.reply = writeUInt16LE(CMD_ACK_OK) \o <<0, 0>>
                                            \o writeUInt16LE(DevSessionId)
                                            \o <<1, 0>>]
              ELSE NoOp]
  /\ wire = <<>>
  /\ dev = [sid |-> DevSessionId, registered |-> FALSE, events |-> 0,
            inline |-> FALSE, size |-> 0, dups |-> 0,
            answer |-> 0, asked |-> <<>>]
  /\ rtCalls = <<>>
  /\ lastSent = IF tr = "tcp"
                THEN IF k = 0 THEN createTCPHeader(CMD_CONNECT, 0, 0, <<>>)
                     ELSE createTCPHeader(CMD_GET_TIME, DevSessionId, k, <<>>)
                ELSE IF k = 0 THEN createUDPHeader(CMD_CONNECT, 0, 0, <<>>)
                     ELSE createUDPHeader(CMD_GET_TIME, DevSessionId, k, <<>>)
  /\ codec = [fn |-> "none"]

InitLong ==
  /\ tr \in Transports
  /\ awaits = TRUE
  /\ Fresh(MaxOps) \/ \E k \in Done : After(k)
  /\ NewFacade

\* a transport in long use: connect(), requests, then MaxOps operations
SpecLong == InitLong /\ [][Next]_vars

\* getUsers() / getAttendances(): the function in slot i, the operations it
\* awaits in the three slots after it
GetUsers(i, n, inline) ==
  /\ Free(i)
  /\ (i + 3) \in OpIds
  /\ Commit(runMicro(getBulk([State EXCEPT !.dev.size = n,
                                           !.dev.inline = inline],
                             i, "users")))

GetAttendances(i, n, inline) ==
  /\ Free(i)
  /\ (i + 3) \in OpIds
  /\ Commit(runMicro(getBulk([State EXCEPT !.dev.size = n,
                                           !.dev.inline = inline],
                             i, "attendances")))

NextBulk ==
  \/ Connect
  \/ \E i \in OpIds, n \in Sizes, inline \in BOOLEAN : GetUsers(i, n, inline)
  \/ \E i \in OpIds, n \in Sizes, inline \in BOOLEAN :
        GetAttendances(i, n, inline)
  \/ Receive
  \/ \E i \in OpIds : Timeout(i)

\* room for connect(), one getUsers / getAttendances and what it awaits
InitBulk == tr \in Transports /\ awaits = TRUE /\ Fresh(4) /\ NewFacade

\* one transport, connect() and then getUsers() or getAttendances()
SpecBulk == InitBulk /\ [][NextBulk]_vars

\* the socket closes: the peer hung up, or end() / close() went through
SocketClose ==
  /\ socket # "null"
  /\ Commit(runMicro(onClose(State, 1)))

NextClose == Next \/ SocketClose

\* one transport, connect(), MaxOps operations, and the socket may close
SpecClose == Init /\ [][NextClose]_vars

\* transport.disconnect(), called whenever the caller likes once connect()
\* was called and settled
Disconnect(i) ==
  /\ i > 1
  /\ (i + 1) \in OpIds
  /\ ops[i].kind = "none"
  /\ ops[i - 1].kind # "none"
  /\ ops[i - 1].st \in {"ok", "err"}
  /\ Commit(runMicro(disconnect(State, i)))

NextDisconnect ==
  \/ Connect
  \/ \E i \in OpIds, c \in Cmds : ExecuteCmd(i, c)
  \/ \E i \in OpIds : Disconnect(i)
  \/ Receive
  \/ \E i \in OpIds : Timeout(i)
  \/ SocketClose

\* the constructor's timeout argument is 0 (no timer) or the example
\* driver's 10000
InitDisconnect ==
  /\ tr \in Transports
  /\ awaits = TRUE
  /\ timeout \in {0, 10000}
  /\ Unconnected(3)
  /\ NewFacade

\* one transport, connect(), commands and one disconnect(); the event
\* loop delivers every frame that arrived and runs every timer that is due
SpecDisconnect ==
  /\ InitDisconnect
  /\ [][NextDisconnect]_vars
  /\ WF_vars(Receive)
  /\ WF_vars(\E i \in OpIds : Timeout(i))

\* a network that loses frames (or a device that does not answer) and,
\* on UDP, delivers a datagram twice
NextLossy ==
  \/ Next
  \/ /\ wire # <<>>
     /\ wire' = Tail(wire)
     /\ UNCHANGED <<tr, timeout, socket, sessionId, replyId, listeners, ops,
                    dev, rtCalls, lastSent, limit, awaits, facadeVars, codec>>
  \/ /\ tr = "udp"
     /\ wire # <<>>
     /\ dev.dups < MaxDups
     /\ wire' = <<Head(wire)>> \o wire
     /\ dev' = [dev EXCEPT !.dups = @ + 1]
     /\ UNCHANGED <<tr, timeout, socket, sessionId, replyId, listeners, ops,
                    rtCalls, lastSent, limit, awaits, facadeVars, codec>>

\* one transport built with a timeout of 0 or 10000, connect() and then
\* MaxOps operations over that network
InitLossy ==
  /\ tr \in Transports
  /\ awaits = FALSE
  /\ timeout \in {0, 10000}
  /\ Unconnected(MaxOps)
  /\ NewFacade

SpecLossy == InitLossy /\ [][NextLossy]_vars

\* the TCP stream during a chunked reassembly: one "data" event brings
\* the next n frames and the first k bytes of the one after them, whose
\* other bytes come with a later event
NextStream ==
  \/ Next
  \/ \E n \in 0..3, k \in {0, 4, 12, 17} :
        LET RECURSIVE concat(_)
            concat(frames) ==
              IF frames = <<>> THEN <<>>
              ELSE Head(frames) \o concat(Tail(frames))
        IN  /\ tr = "tcp"
            /\ socket = "open"
            /\ \E l \in 1..Len(listeners) : listeners[l].k = "chunk"
            /\ n + k > 0
            /\ ~(n = 1 /\ k = 0)
            /\ n <= Len(wire)
            /\ k > 0 => (n < Len(wire) /\ k < Len(wire[n + 1]))
            /\ Commit(runMicro(emit(
                  [State EXCEPT !.wire =
                     IF k = 0 THEN SubSeq(wire, n + 1, Len(wire))
                     ELSE <<SubSeq(wire[n + 1], k + 1, Len(wire[n + 1]))>>
                            \o SubSeq(wire, n + 2, Len(wire))],
                  concat(SubSeq(wire, 1, n))
                    \o (IF k = 0 THEN <<>> ELSE SubSeq(wire[n + 1], 1, k)))))

SpecStream == Init /\ [][NextStream]_vars

\* the functions of utils.ts called on their own: parseTimeToDate with
\* packed timestamps, decodeUserData72 with 72-byte user records (uid,
\* role, password[8]@3, name[24]@11, cardno@35, reserved, userId[9]@48,
\* each text field padded with NULs) and createTCPHeader with 16-bit
\* commands, session ids, reply ids and short bodies
NextCodec ==
  \/ /\ \E time \in {0, 347241615, 355068915, 2147483647}
                      \cup {347241615 + 86413 * k : k \in 1..40} :
          codec' = [fn |-> "parseTimeToDate", time |-> time,
                    out |-> parseTimeToDate(time)]
     /\ UNCHANGED <<transportVars, facadeVars>>
  \/ /\ \E uid \in {1, 3000}, role \in {0, 14},
           password \in {<<>>, <<49, 50, 51, 52, 53, 54, 55, 56>>},
           name \in {<<>>, <<65, 108, 105, 99, 101>>, <<65, 0, 67>>,
                     [k \in 1..24 |-> 66], [k \in 1..24 |-> 200 + k]},
           cardno \in {0, 12345, 16843009},
           reserved \in {0, 7},
           userId \in {<<49>>, <<49, 50, 51, 52, 53, 54, 55, 56, 57>>} :
          LET field(text, n) ==
                [k \in 1..n |-> IF k <= Len(text) THEN text[k] ELSE 0]
              userData ==
                writeUInt16LE(uid) \o <<role>> \o field(password, 8)
                  \o field(name, 24) \o writeUInt32LE(cardno)
                  \o [k \in 1..9 |-> reserved] \o field(userId, 9)
                  \o [k \in 1..15 |-> 0]
          IN  codec' = [fn |-> "decodeUserData72", userData |-> userData,
                        out |-> decodeUserData72(userData)]
     /\ UNCHANGED <<transportVars, facadeVars>>
  \/ /\ \E command \in {0, CMD_CONNECT, CMD_DATA_WRRQ, 65535},
           sid \in {0, DevSessionId, 65535},
           rid \in {0, 1, 65534, 65535},
           data \in {<<>>, <<1>>, <<255, 0, 7>>, GET_USERS} :
          LET buf == createTCPHeader(command, sid, rid, data)
          IN  codec' = [fn |-> "createTCPHeader", command |-> command,
                        data |-> data, out |-> buf,
                        stripped |-> removeTcpHeader(buf)]
     /\ UNCHANGED <<transportVars, facadeVars>>

SpecCodec == InitFacade /\ [][NextCodec]_vars

\* the TCP transport with a caller that connects and sets users, with
\* arguments on both sides of every limit setUser tests
NextUser ==
  \/ Connect
  \/ \E i \in OpIds, uid \in {-1, 0, 1, 3000, 3001},
        userid \in {<<49>>, [k \in 1..9 |-> 56], [k \in 1..10 |-> 49]},
        name \in {<<65, 108, 105, 99, 101>>, [k \in 1..25 |-> 66]},
        password \in {<<>>, [k \in 1..9 |-> 49]},
        role \in {0, 14},
        cardno \in {<<48>>, <<55, 48, 48, 48, 48>>, [k \in 1..11 |-> 49]} :
        /\ Free(i)
        /\ (i + 1) \in OpIds
        /\ Commit(runMicro(setUser(State, i, uid, userid, name, password,
                                   role, cardno)))
  \/ Receive
  \/ \E i \in OpIds : Timeout(i)

InitUser == tr = "tcp" /\ awaits = TRUE /\ Fresh(2) /\ NewFacade

SpecUser == InitUser /\ [][NextUser]_vars

\* a device that answers CMD_DATA_WRRQ with a command of its choosing:
\* CMD_ACK_OK or, outside the commands readWithBuffer expects, CMD_EXIT;
\* the answer carries the size at payload offset 1, or (n = 0) no payload
NextAnswer ==
  \/ Next
  \/ \E i \in OpIds, n \in 0..(MAX_CHUNK + 1),
        answer \in {CMD_ACK_OK, CMD_EXIT} :
        /\ Free(i)
        /\ Commit(readWithBuffer(
                    [begin(i, "read", CMD_DATA_WRRQ)
                       EXCEPT !.dev.size = n, !.dev.answer = answer],
                    i, GET_USERS))

SpecAnswer == Init /\ [][NextAnswer]_vars

(* ------------------------------------------------------------------ *)
(* Properties of the transports                                        *)
(* ------------------------------------------------------------------ *)

\* the request frame of a command, as the transport in use frames it
request(command, sid, rid, data) ==
  IF tr = "tcp" THEN createTCPHeader(command, sid, rid, data)
  ELSE createUDPHeader(command, sid, rid, data)

\* a frame as the client's handlers see it, without the TCP prefix
payload(data) == IF tr = "tcp" THEN removeTcpHeader(data) ELSE data

isEventFrame(data) ==
  IF tr = "tcp" THEN checkNotEventTCP(data) ELSE checkNotEventUDP(data)

\* whether the bytes of part occur, in a row, in buf
Contains(buf, part) ==
  \E k \in 0..(Len(buf) - Len(part)) :
     SubSeq(buf, k + 1, k + Len(part)) = part

EventsInWire == Cardinality({k \in 1..Len(wire) : wire[k] = eventFrame})

\* C1: on both transports the step that starts executeCmd(c), c # CONNECT,
\* raises replyId by exactly 1 and writes the frame built from the raised
\* value, whatever happens to the reply later; the step that starts
\* executeCmd(CONNECT) sets replyId to 0 and builds the frame from 0.
C1_ReplyIdCounts ==
  [][\A i \in OpIds :
       (ops[i].kind = "none" /\ ops'[i].kind \in {"connect", "exec"}) =>
         IF ops'[i].cmd = CMD_CONNECT
         THEN /\ replyId' = 0
              /\ lastSent' = request(CMD_CONNECT, 0, 0, <<>>)
         ELSE /\ replyId' = replyId + 1
              /\ lastSent' = request(ops'[i].cmd, sessionId, replyId + 1,
                                     <<>>)]_vars

\* executeCmd(GET_TIME) went out as request 1 and never got its reply
C1_Witness ==
  \E i \in OpIds : /\ ops[i].kind = "exec"
                   /\ ops[i].cmd = CMD_GET_TIME
                   /\ ops[i].err = "TIMEOUT_ON_WRITING_MESSAGE"
                   /\ replyId = 1
                   /\ lastSent = request(CMD_GET_TIME, sessionId, 1, <<>>)

\* C2: the step in which connect() succeeds leaves sessionId equal to the
\* 16-bit little-endian value at bytes 4-5 of the device's CONNECT reply and
\* replyId equal to 0; sessionId changes only in a step of an
\* executeCmd(CONNECT); once set it is never null again.
C2_SessionFromConnectReply ==
  [][/\ (ops[1].st = "pending" /\ ops'[1].st = "ok") =>
          /\ wire # <<>>
          /\ sessionId' = readUIntLE(payload(Head(wire)), 4, 2)
          /\ replyId' = 0
     /\ sessionId' # sessionId =>
          \E i \in OpIds : ops'[i].cmd = CMD_CONNECT /\ ops'[i] # ops[i]
     /\ sessionId # NULL => sessionId' # NULL]_vars

\* connected with the device's session, and a later operation completed
C2_Witness ==
  /\ ops[1].st = "ok"
  /\ sessionId = DevSessionId
  /\ \E i \in OpIds : i > 1 /\ ops[i].cmd # CMD_CONNECT /\ ops[i].st = "ok"

\* C3: at any instant at most one command is awaiting a reply on the
\* transport, also when the caller does not await the previous operation.
C3_OneCommandInFlight ==
  Cardinality({i \in OpIds : ops[i].inner = "pending"}) <= 1

\* C4: an event frame never resolves a pending command: neither the reply
\* executeCmd resolves with nor the first response of readWithBuffer is an
\* event frame.
C4_EventNeverAnswersCommand ==
  \A i \in OpIds :
     /\ (ops[i].kind \in {"connect", "exec"} /\ ops[i].st = "ok") =>
           ~isEventFrame(ops[i].reply)
     /\ ops[i].kind = "read" => ~isEventFrame(ops[i].response)

\* C5: an event frame that arrives while a bulk read is in flight (inline
\* DATA path or chunked path) contributes no bytes to the buffer the bulk
\* read returns.
C5_EventBytesStayOutOfBulkRead ==
  \A i \in OpIds :
     (ops[i].kind = "read" /\ ops[i].st = "ok") =>
        ~Contains(ops[i].reply, payload(eventFrame))

\* invocations of the callback handed to getRealTimeLogs by operation i
CallsOf(i) == Cardinality({k \in 1..Len(rtCalls) : rtCalls[k].cb = i})

\* C6: once getRealTimeLogs(cb) was called on the connected transport, in
\* whatever state earlier operations left the socket, every event frame the
\* socket received since has invoked cb.  (The device sends events only
\* once the first getRealTimeLogs registered for them, so every event it
\* sent and the socket received counts for the first call's cb.)
C6_EveryEventInvokesCallback ==
  \A i \in OpIds :
     (ops[i].kind = "rt" /\ \A j \in 1..(i - 1) : ops[j].kind # "rt") =>
        CallsOf(i) + EventsInWire = dev.events

\* C7: for every announced size N, multiples of MAX_CHUNK included, a TCP
\* chunked readWithBuffer that resolves without error returns exactly the
\* N bytes, and has called progressCb once per chunk with non-decreasing
\* values ending at N.
C7_BulkReadReturnsAllBytes ==
  \A i \in OpIds :
     (/\ tr = "tcp" /\ ops[i].kind = "read" /\ ops[i].st = "ok"
      /\ ops[i].err = "" /\ ops[i].mode = 0) =>
        LET p == ops[i].progress
        IN  /\ ops[i].reply = DataRange(0, dev.size)
            /\ Len(p) = (dev.size + MAX_CHUNK - 1) \div MAX_CHUNK
            /\ \A k \in 1..(Len(p) - 1) : p[k] <= p[k + 1]
            /\ p[Len(p)] = dev.size

(* ------------------------------------------------------------------ *)
(* The facade (zklib.ts): createSocket with its TCP -> UDP fallback,   *)
(* and the dispatch of operations                                      *)
(* ------------------------------------------------------------------ *)

\* error codes a socket reports; a command that times out rejects with an
\* Error that has a message and no code
TcpErrors == {"ECONNREFUSED", "EHOSTUNREACH"}
UdpErrors == {"EADDRINUSE", "EACCES"}
SocketError(code) == [code |-> code, message |-> code]
NoReply == [code |-> "", message |-> "TIMEOUT_ON_WRITING_MESSAGE"]

Facade ==
  [connectionType |-> connectionType, zklibTcp |-> zklibTcp,
   zklibUdp |-> zklibUdp, call |-> call, outcome |-> outcome]

CommitFacade(f) ==
  /\ connectionType' = f.connectionType
  /\ zklibTcp' = f.zklibTcp
  /\ zklibUdp' = f.zklibUdp
  /\ call' = f.call
  /\ outcome' = f.outcome
  /\ UNCHANGED <<transportVars, codec>>

\* createSocket returns
return(f) ==
  [f EXCEPT !.outcome = [st |-> "ok", command |-> "", err |-> NoError],
            !.call.pc = "idle"]

\* createSocket throws new ZKError(err, command, ip)
throwZKError(f, err, command) ==
  [f EXCEPT !.outcome = [st |-> "err", command |-> command, err |-> err],
            !.call.pc = "idle"]

\* executeCmd(CMD_CONNECT) up to its await: the frame is written
connectSent(t) == [t EXCEPT !.sessionId = 0, !.replyId = 0, !.sent = @ + 1]

\* executeCmd(CMD_CONNECT) with the device's reply
connectReplied(t) == [t EXCEPT !.sessionId = DevSessionId]

\* tryTcpConnection up to its first await: skipped when a socket is held
tryTcpConnection(f) ==
  IF f.zklibTcp.socket = "null"
  THEN [f EXCEPT !.zklibTcp.socket = "open", !.call.tcp = "try",
                 !.call.pc = "tcpSocket"]
  ELSE return([f EXCEPT !.call.tcp = "skip"])

\* tryUdpConnection up to its first await
tryUdpConnection(f) ==
  IF f.zklibUdp.socket = "null"
  THEN [f EXCEPT !.zklibUdp.socket = "open", !.call.udp = "try",
                 !.call.pc = "udpBind"]
  ELSE return([f EXCEPT !.call.udp = "skip"])

\* cleanupSockets after zklibUdp.disconnect()
cleanupSocketsThen(f) ==
  [f EXCEPT !.zklibUdp.socket = "null", !.zklibTcp.socket = "null"]

\* cleanupSockets up to the await in disconnect(): without a socket CMD_EXIT
\* is counted, writeMessage throws and closeSocket returns at once
cleanupSockets(f) ==
  LET f1 == [f EXCEPT !.connectionType = "null", !.zklibUdp.replyId = @ + 1]
  IN  IF f1.zklibUdp.socket = "null" THEN cleanupSocketsThen(f1)
      ELSE [f1 EXCEPT !.call.pc = "cleanup", !.zklibUdp.sent = @ + 1]

\* the catch of the UDP attempt falling back on any error alike
createSocketCatchUdpNoCleanup(f, err) ==
  return([f EXCEPT !.call.udp = "fail", !.call.udpErr = err,
                   !.connectionType = "udp"])

\* the catch of createSocket around the UDP attempt
createSocketCatchUdp(f, err) ==
  LET f1 == [f EXCEPT !.call.udp = "fail", !.call.udpErr = err]
      f2 == cleanupSockets(f1)
  IN  IF err.code # "EADDRINUSE"
      THEN IF f2.call.pc = "cleanup" THEN f2
           ELSE throwZKError(f2, err, "UDP CONNECT")
      ELSE return([f1 EXCEPT !.connectionType = "udp"])

\* the catch of the TCP attempt falling back to UDP on any error
createSocketCatchTcpAnyError(f, err) ==
  tryUdpConnection([f EXCEPT !.call.tcp = "fail", !.call.tcpErr = err])

\* the catch of createSocket around the TCP attempt
createSocketCatchTcp(f, err) ==
  LET f1 == [f EXCEPT !.call.tcp = "fail", !.call.tcpErr = err]
  IN  IF err.code # "ECONNREFUSED" THEN throwZKError(f1, err, "TCP CONNECT")
      ELSE tryUdpConnection(f1)

createConnectionError(connectionTypeMsg) ==
  [to |-> "", command |-> connectionTypeMsg,
   err |-> [code |-> "ECONNREFUSED", message |-> "Socket isn't connected !"]]

\* functionWrapper preferring the TCP callback whenever there is one
functionWrapperTcpCallback(udpCallback) ==
  IF connectionType = "null" THEN createConnectionError("")
  ELSE [to |-> "tcp", command |-> "", err |-> NoError]

\* functionWrapper running the callback without looking at the socket
functionWrapperNoSocketCheck(udpCallback) ==
  CASE connectionType = "tcp" -> [to |-> "tcp", command |-> "", err |-> NoError]
    [] connectionType = "udp" ->
         IF ~udpCallback
         THEN [to |-> "", command |-> "[UDP]",
               err |-> [code |-> "EINVALID",
                        message |-> "UDP callback not provided"]]
         ELSE [to |-> "udp", command |-> "", err |-> NoError]
    [] OTHER -> createConnectionError("")

\* functionWrapper: the transport whose callback runs, or the error thrown
functionWrapper(udpCallback) ==
  CASE connectionType = "tcp" ->
         IF zklibTcp.socket = "null" THEN createConnectionError("[TCP]")
         ELSE [to |-> "tcp", command |-> "", err |-> NoError]
    [] connectionType = "udp" ->
         IF zklibUdp.socket = "null" THEN createConnectionError("[UDP]")
         ELSE IF ~udpCallback
         THEN [to |-> "", command |-> "[UDP]",
               err |-> [code |-> "EINVALID",
                        message |-> "UDP callback not provided"]]
         ELSE [to |-> "udp", command |-> "", err |-> NoError]
    [] OTHER -> createConnectionError("")

\* createSocket() is called
CreateSocket ==
  /\ call.pc = "idle"
  /\ call.n < MaxSockets
  /\ CommitFacade(tryTcpConnection(
       [Facade EXCEPT !.call = [NoCall EXCEPT
          !.n = call.n + 1,
          !.entry = [connectionType |-> connectionType,
                     udpSocket |-> zklibUdp.socket]]]))
  /\ UNCHANGED dispatch

\* the TCP socket connects; connect() sends CMD_CONNECT
TcpSocketConnect ==
  /\ call.pc = "tcpSocket"
  /\ CommitFacade([Facade EXCEPT !.zklibTcp = connectSent(@),
                                 !.call.pc = "tcpConnect"])
  /\ UNCHANGED dispatch

\* the TCP socket reports an error and closes
TcpSocketError(code) ==
  /\ call.pc = "tcpSocket"
  /\ CommitFacade(createSocketCatchTcp(
       [Facade EXCEPT !.zklibTcp.socket = "null"], SocketError(code)))
  /\ UNCHANGED dispatch

\* the device answers the TCP CMD_CONNECT
TcpConnectReply ==
  /\ call.pc = "tcpConnect"
  /\ CommitFacade(return([Facade EXCEPT !.zklibTcp = connectReplied(@),
                                        !.call.tcp = "ok",
                                        !.connectionType = "tcp"]))
  /\ UNCHANGED dispatch

\* no reply to the TCP CMD_CONNECT within 2000 ms
TcpConnectTimeout ==
  /\ call.pc = "tcpConnect"
  /\ timeout # 0
  /\ CommitFacade(createSocketCatchTcp(Facade, NoReply))
  /\ UNCHANGED dispatch

\* the UDP socket is bound; connect() sends CMD_CONNECT
UdpListening ==
  /\ call.pc = "udpBind"
  /\ CommitFacade([Facade EXCEPT !.zklibUdp = connectSent(@),
                                 !.call.pc = "udpConnect"])
  /\ UNCHANGED dispatch

\* binding the UDP socket fails: its error listener drops the reference
UdpBindError(code) ==
  /\ call.pc = "udpBind"
  /\ CommitFacade(createSocketCatchUdp(
       [Facade EXCEPT !.zklibUdp.socket = "null"], SocketError(code)))
  /\ UNCHANGED dispatch

\* the device answers the UDP CMD_CONNECT
UdpConnectReply ==
  /\ call.pc = "udpConnect"
  /\ CommitFacade(return([Facade EXCEPT !.zklibUdp = connectReplied(@),
                                        !.call.udp = "ok",
                                        !.connectionType = "udp"]))
  /\ UNCHANGED dispatch

\* no reply to the UDP CMD_CONNECT within 2000 ms
UdpConnectTimeout ==
  /\ call.pc = "udpConnect"
  /\ timeout # 0
  /\ CommitFacade(createSocketCatchUdp(Facade, NoReply))
  /\ UNCHANGED dispatch

\* disconnect() of the cleanup is through: CMD_EXIT answered or timed out,
\* the UDP socket closed
CleanupDone ==
  /\ call.pc = "cleanup"
  /\ CommitFacade(throwZKError(cleanupSocketsThen(Facade), call.udpErr,
                               "UDP CONNECT"))
  /\ UNCHANGED dispatch

\* a socket held by a transport closes: its close listener drops it
TcpSocketClose ==
  /\ call.pc = "idle"
  /\ zklibTcp.socket = "open"
  /\ zklibTcp' = [zklibTcp EXCEPT !.socket = "null"]
  /\ UNCHANGED <<codec, transportVars, connectionType, zklibUdp, call, outcome,
                 dispatch>>

UdpSocketClose ==
  /\ call.pc = "idle"
  /\ zklibUdp.socket = "open"
  /\ zklibUdp' = [zklibUdp EXCEPT !.socket = "null"]
  /\ UNCHANGED <<codec, transportVars, connectionType, zklibTcp, call, outcome,
                 dispatch>>

\* an operation of the facade: one with a UDP callback (getTime) or one
\* without (getSerialNumber); the transport it reaches counts a request
FacadeOp(udpCallback) ==
  LET d == functionWrapper(udpCallback)
  IN  /\ call.pc = "idle"
      /\ dispatch.n < MaxFacadeOps
      /\ dispatch' = [n |-> dispatch.n + 1, udpCallback |-> udpCallback,
                      to |-> d.to, command |-> d.command, err |-> d.err]
      /\ zklibTcp' = IF d.to = "tcp"
                     THEN [zklibTcp EXCEPT !.replyId = @ + 1, !.sent = @ + 1]
                     ELSE zklibTcp
      /\ zklibUdp' = IF d.to = "udp"
                     THEN [zklibUdp EXCEPT !.replyId = @ + 1, !.sent = @ + 1]
                     ELSE zklibUdp
      /\ UNCHANGED <<codec, transportVars, connectionType, call, outcome>>

NextFacade ==
  \/ CreateSocket
  \/ TcpSocketConnect
  \/ \E code \in TcpErrors : TcpSocketError(code)
  \/ TcpConnectReply
  \/ TcpConnectTimeout
  \/ UdpListening
  \/ \E code \in UdpErrors : UdpBindError(code)
  \/ UdpConnectReply
  \/ UdpConnectTimeout
  \/ CleanupDone
  \/ TcpSocketClose
  \/ UdpSocketClose
  \/ \E udpCallback \in BOOLEAN : FacadeOp(udpCallback)

\* one facade: createSocket calls, sockets closing, operations
SpecFacade == InitFacade /\ [][NextFacade]_vars

(* ------------------------------------------------------------------ *)
(* Properties of the facade                                            *)
(* ------------------------------------------------------------------ *)

\* the last createSocket call: TCP refused, UDP bound and connected
UdpFallback ==
  /\ call.tcp = "fail"
  /\ call.tcpErr.code = "ECONNREFUSED"
  /\ call.udp = "ok"

\* C8: when the TCP attempt fails with ECONNREFUSED and the UDP bind and
\* CONNECT succeed, createSocket returns without error with connectionType
\* "udp"; every facade operation called after that is routed to UDP (its
\* UDP callback runs while the UDP socket is held, else the error raised is
\* tagged [UDP]) and none reaches the TCP transport.
C8_FallbackRoutesToUdp ==
  [][/\ UdpFallback' =>
          /\ call'.pc = "idle"
          /\ outcome'.st = "ok"
          /\ connectionType' = "udp"
     /\ (UdpFallback /\ dispatch'.n # dispatch.n) =>
          /\ dispatch'.to # "tcp"
          /\ zklibTcp' = zklibTcp
          /\ dispatch'.to = "udp" \/ dispatch'.command = "[UDP]"
          /\ (dispatch'.udpCallback /\ zklibUdp.socket = "open") =>
                (dispatch'.to = "udp" /\ zklibUdp'.replyId = zklibUdp.replyId + 1)
    ]_vars

\* after the fallback getTime went to the UDP transport
C8_Witness ==
  /\ UdpFallback
  /\ connectionType = "udp"
  /\ dispatch.n > 0 /\ dispatch.udpCallback /\ dispatch.to = "udp"
  /\ zklibUdp.replyId > 0 /\ zklibTcp.replyId = 0

C10_UdpFailureHandling ==
  [][/\ (/\ call.udp = "try" /\ call'.udp = "fail"
         /\ call'.udpErr.code = "EADDRINUSE") =>
          /\ call'.tcpErr.code = "ECONNREFUSED"
          /\ call'.pc = "idle"
          /\ outcome'.st = "ok"
          /\ connectionType' = "udp"
     /\ (/\ call.udp = "try" /\ call'.udp = "fail"
         /\ call'.udpErr.code # "EADDRINUSE") =>
          /\ connectionType' = "null"
          /\ call'.pc \in {"cleanup", "idle"}
     /\ (/\ call.pc # "idle" /\ call'.pc = "idle" /\ call'.udp = "fail"
         /\ call'.udpErr.code # "EADDRINUSE") =>
          /\ outcome' = [st |-> "err", command |-> "UDP CONNECT",
                         err |-> call'.udpErr]
          /\ connectionType' = "null"
          /\ zklibTcp'.socket = "null"
          /\ zklibUdp'.socket = "null"
    ]_vars

\* a first createSocket ended on EADDRINUSE with connectionType "udp"; the
\* second found that, got no reply to the UDP CONNECT and cleaned up
C10_Witness ==
  /\ call.n = 2 /\ call.pc = "idle"
  /\ call.entry.connectionType = "udp"
  /\ outcome = [st |-> "err", command |-> "UDP CONNECT", err |-> NoReply]
  /\ connectionType = "null"
  /\ zklibTcp.socket = "null" /\ zklibUdp.socket = "null"

\* the transport the facade chose holds no socket, or none was chosen
NoSocket ==
  \/ connectionType = "null"
  \/ connectionType = "tcp" /\ zklibTcp.socket = "null"
  \/ connectionType = "udp" /\ zklibUdp.socket = "null"

\* C11: a facade operation called when no transport is chosen or the chosen
\* transport holds no socket fails with ECONNREFUSED "Socket isn't connected
\* !"; a TCP-only operation called when connectionType is "udp" (its socket
\* held, else the first case applies) fails with EINVALID "UDP callback not
\* provided"; in both cases no callback runs: neither transport writes a
\* frame and both replyId counters stay as they were.
C11_DispatchErrors ==
  [][dispatch'.n # dispatch.n =>
       /\ NoSocket =>
            /\ dispatch'.err = [code |-> "ECONNREFUSED",
                                message |-> "Socket isn't connected !"]
            /\ dispatch'.to = ""
            /\ zklibTcp' = zklibTcp /\ zklibUdp' = zklibUdp
       /\ (connectionType = "udp" /\ ~NoSocket /\ ~dispatch'.udpCallback) =>
            /\ dispatch'.err = [code |-> "EINVALID",
                                message |-> "UDP callback not provided"]
            /\ dispatch'.to = ""
            /\ zklibTcp' = zklibTcp /\ zklibUdp' = zklibUdp
       /\ dispatch'.to = "" =>
            (NoSocket \/ (connectionType = "udp" /\ ~dispatch'.udpCallback))
    ]_vars

\* a first operation found the UDP transport connected and was refused as
\* TCP-only; the socket then closed and the second was refused for that:
\* the UDP transport wrote its CONNECT and nothing else
C11_Witness ==
  /\ connectionType = "udp" /\ zklibUdp.socket = "null"
  /\ call.udp = "ok"
  /\ dispatch.n = 2
  /\ dispatch.err.code = "ECONNREFUSED" /\ dispatch.command = "[UDP]"
  /\ zklibUdp.sent = 1 /\ zklibUdp.replyId = 0
  /\ zklibTcp.sent = 0

(* ------------------------------------------------------------------ *)
(* Properties of the frames and of the request counter                 *)
(* ------------------------------------------------------------------ *)

\* C12: for every frame createUDPHeader / createTCPHeader built, as it is
\* written to the socket, the checksum recomputed over the inner frame with
\* bytes 2-3 zeroed is the value stored in bytes 2-3.
C12_WrittenChecksumRoundTrip ==
  lastSent # <<>> =>
     LET inner == payload(lastSent)
     IN  createCheckSum(patch16(inner, 2, 0)) = readUIntLE(inner, 2, 2)

\* C13: between two CONNECTs every command written (executeCmd, DATA_WRRQ,
\* DATA_RDY, REG_EVENT) uses a replyId strictly greater than the one the
\* previous command used, on both transports.
C13_ReplyIdIncreases ==
  [][(/\ lastSent' # lastSent
      /\ readUIntLE(payload(lastSent'), 0, 2) # CMD_CONNECT) =>
        replyId' > replyId]_vars

\* C14: replyId wraps modulo 65536: it stays within 0..65535, and the
\* command started when replyId is 65535 is written with replyId 0.
C14_ReplyIdWraps ==
  [][/\ replyId' \in 0..USHRT_MAX
     /\ \A i \in OpIds :
          (/\ replyId = USHRT_MAX
           /\ ops[i].kind = "none" /\ ops'[i].kind # "none"
           /\ ops'[i].cmd # CMD_CONNECT) =>
             /\ replyId' = 0
             /\ lastSent' = request(ops'[i].cmd, sessionId, 0,
                                    subarrayFrom(payload(lastSent'), 8))
    ]_vars

(* ------------------------------------------------------------------ *)
(* Properties of the bulk read's failures                              *)
(* ------------------------------------------------------------------ *)

ChunkTimeouts ==
  {"TIMEOUT WHEN RECEIVING PACKET", "TIME OUT !! PACKETS REMAIN !",
   "TIMEOUT!! % REMAIN!"}

\* the bytes a chunked receive has assembled
assembled(o) == IF tr = "tcp" THEN o.replyData ELSE o.totalBuffer

\* C15: when the timer of the chunked reassembly expires while the read is
\* pending, readWithBuffer resolves (it does not reject) with the bytes
\* assembled so far and a timeout error, on both transports.
C15_ChunkTimeoutResolvesPartial ==
  [][\A i \in OpIds :
       (/\ ops[i].kind = "read" /\ ops[i].st = "pending"
        /\ ops[i].timer \in {"chunk", "chunkIdle"}
        /\ ops'[i].timer = "none" /\ wire' = wire) =>
          /\ ops'[i].st = "ok"
          /\ ops'[i].err \in ChunkTimeouts
          /\ ops'[i].reply = assembled(ops[i])]_vars

\* the idle timer ended a read that had part of the announced bytes
C15_Witness ==
  \E i \in OpIds :
     /\ ops[i].kind = "read" /\ ops[i].st = "ok"
     /\ ops[i].err \in {"TIME OUT !! PACKETS REMAIN !", "TIMEOUT!! % REMAIN!"}
     /\ Len(ops[i].reply) > 0 /\ Len(ops[i].reply) < dev.size
     /\ ops[i].reply = DataRange(0, Len(ops[i].reply))

\* the functions reading users or attendance logs
Bulk == {"users", "attendances"}

\* C16: when readWithBuffer resolved with a partial buffer and an error,
\* getUsers / getAttendances return the records decoded from that buffer
\* together with that error, on both transports.
C16_PartialResultKeepsError ==
  \A i \in OpIds :
     (/\ ops[i].kind \in Bulk /\ ops[i].result.st = "ok"
      /\ ops[i + 2].err # "") =>
        /\ ops[i].result.data = records(subarrayFrom(ops[i + 2].reply, 4))
        /\ ops[i].result.err = ops[i + 2].err

\* the command of the frame written in this step, 0 when none was
written(before, after) ==
  IF after = before THEN 0 ELSE readUIntLE(payload(after), 0, 2)

\* C19: in getUsers and getAttendances on either transport, with the
\* socket present, DATA_WRRQ is written only once the first FREE_DATA
\* command completed, and in the step in which the bulk read ends, however
\* it ends (all bytes, part of them with a timeout error, or a rejection),
\* a second FREE_DATA command is issued.
C19_FreeDataAroundBulkRead ==
  [][\A i \in OpIds :
       ops'[i].kind \in Bulk =>
          /\ written(lastSent, lastSent') = CMD_DATA_WRRQ =>
                /\ ops'[i + 1].cmd = CMD_FREE_DATA
                /\ ops'[i + 1].st = "ok"
          /\ (ops[i].phase = "read" /\ ops'[i].phase # "read") =>
                /\ ops'[i].phase = "free2"
                /\ ops'[i + 3].cmd = CMD_FREE_DATA
                /\ written(lastSent, lastSent') = CMD_FREE_DATA]_vars

(* ------------------------------------------------------------------ *)
(* Properties of a closing socket                                      *)
(* ------------------------------------------------------------------ *)

\* C17: a bulk read in chunked reassembly whose socket closed, on either
\* transport, resolves (in the step of the close or any later one) with the
\* bytes assembled so far and the error SOCKET_DISCONNECTED_UNEXPECTEDLY.
C17_CloseResolvesPartial ==
  [][\A i \in OpIds :
       (/\ ops[i].kind = "read" /\ ops[i].st = "pending"
        /\ ops[i].timer \in {"chunk", "chunkIdle"}
        /\ socket' = "null"
        /\ ops'[i].st # "pending") =>
          /\ ops'[i].st = "ok"
          /\ ops'[i].err = "Socket is disconnected unexpectedly"
          /\ ops'[i].reply = assembled(ops[i])]_vars

\* C18: a caller awaiting the reply of executeCmd, or the first response
\* of readWithBuffer, whose socket closed gets (in the step of the close or
\* any later one) the outcome SOCKET_DISCONNECTED_UNEXPECTEDLY and no other.
C18_CloseResolvesAwaitingCaller ==
  [][\A i \in OpIds :
       (/\ ops[i].kind \in {"connect", "exec", "read"}
        /\ ops[i].st = "pending" /\ ops[i].inner = "pending"
        /\ socket' = "null"
        /\ ops'[i].st # "pending") =>
          ops'[i].err = "Socket is disconnected unexpectedly"]_vars

(* ------------------------------------------------------------------ *)
(* Properties of disconnect                                            *)
(* ------------------------------------------------------------------ *)

\* C20: transport.disconnect(), on both transports and whatever becomes
\* of its CMD_EXIT, always eventually resolves true.
C20_DisconnectResolves ==
  (\E i \in OpIds : ops[i].kind = "disconnect" /\ ops[i].st = "pending")
     ~> (\E i \in OpIds : /\ ops[i].kind = "disconnect"
                          /\ ops[i].result.st = "ok")

(* ------------------------------------------------------------------ *)
(* Properties of the codec                                             *)
(* ------------------------------------------------------------------ *)

\* C23 as stated: the packed-timestamp decoder applied to 347241615 yields
\* year 2011, month 0, day 18, hour 14, minute 15, second 15.
C23_PackedTimestampExample ==
  (codec.fn = "parseTimeToDate" /\ codec.time = 347241615) =>
     codec.out = [year |-> 2011, month |-> 0, day |-> 18, hour |-> 14,
                  minute |-> 15, second |-> 15]

\* C23 amended: the packed-timestamp decoder takes seconds mod 60, minutes
\* mod 60, hours mod 24, day - 1 mod 31, month mod 12 and year - 2000 off
\* its argument in turn; applied to 347241615 it yields year 2010, month 9,
\* day 21, hour 0, minute 0, second 15.
C23_PackedTimestampDecodes ==
  codec.fn = "parseTimeToDate" =>
     LET d == codec.out
     IN  /\ d.second \in 0..59 /\ d.minute \in 0..59 /\ d.hour \in 0..23
         /\ d.day \in 1..31 /\ d.month \in 0..11 /\ d.year >= 2000
         /\ codec.time =
              ((((((d.year - 2000) * 12 + d.month) * 31 + (d.day - 1)) * 24
                   + d.hour) * 60 + d.minute) * 60) + d.second
         /\ codec.time = 347241615 =>
               d = [year |-> 2010, month |-> 9, day |-> 21, hour |-> 0,
                    minute |-> 0, second |-> 15]

C23_Witness == codec.fn = "parseTimeToDate" /\ codec.time = 347241615

\* C24: the name the 72-byte user-record decoder returns is the bytes of
\* the 24-byte name field (offsets 11..34) up to its first NUL, and
\* nothing from outside that field, also when the field holds no NUL.
C24_NameFromNameField ==
  codec.fn = "decodeUserData72" =>
     codec.out.name = cstr(subarray(codec.userData, 11, 11 + 24))

\* C25: the TCP frame builder's output is the prefix 50 50 82 7D, a length
\* field equal to the length of the inner frame that follows, then the
\* inner frame (8 bytes of header and the body); removeTcpHeader of it is
\* exactly that inner frame, whose commandId is the command passed in.
C25_TcpPrefixRoundTrip ==
  codec.fn = "createTCPHeader" =>
     LET buf == codec.out
         inner == SubSeq(buf, 9, Len(buf))
     IN  /\ Len(buf) = 8 + 8 + Len(codec.data)
         /\ SubSeq(buf, 1, 4) = <<80, 80, 130, 125>>
         /\ buf[5] + 256 * buf[6] + 65536 * buf[7] + 16777216 * buf[8]
               = Len(inner)
         /\ codec.stripped = inner
         /\ inner[1] + 256 * inner[2] = codec.command
         /\ SubSeq(inner, 9, Len(inner)) = codec.data

C25_Witness ==
  /\ codec.fn = "createTCPHeader"
  /\ codec.command = CMD_DATA_WRRQ
  /\ codec.data = GET_USERS

(* ------------------------------------------------------------------ *)
(* Properties of setUser                                               *)
(* ------------------------------------------------------------------ *)

\* C22: whenever setUser is called with uid outside 1..3000, or with a
\* userid, name, password or cardno longer than 9, 24, 8, 10 characters,
\* it fails with "Invalid input parameters", no frame is written and
\* replyId is unchanged.
C22_SetUserValidates ==
  [][\A i \in OpIds :
       (/\ ops[i].kind = "none" /\ ops'[i].kind = "setUser"
        /\ LET a == ops'[i].args
           IN  \/ a.uid < 1 \/ a.uid > 3000
               \/ Len(a.userid) > 9 \/ Len(a.name) > 24
               \/ Len(a.password) > 8 \/ Len(a.cardno) > 10) =>
          /\ ops'[i].st = "err"
          /\ ops'[i].result.err = "Failed to set user: Invalid input parameters"
          /\ lastSent' = lastSent
          /\ replyId' = replyId]_vars

(* ------------------------------------------------------------------ *)
(* Properties of an unreliable network                                 *)
(* ------------------------------------------------------------------ *)

\* C21: connect(), on either transport and whatever the configured
\* timeout (0 included), eventually fails when the device never replies
\* to CMD_CONNECT: as long as connect() is pending and no reply is on
\* its way, the connect timer, the one thing that can still settle it,
\* is armed.
C21_ConnectFailsWithoutReply ==
  (ops[1].kind = "connect" /\ ops[1].st = "pending" /\ wire = <<>>) =>
     ops[1].timer = "write"

(* ------------------------------------------------------------------ *)
(* Properties of the pairing of requests and replies                   *)
(* ------------------------------------------------------------------ *)

\* C26: executeCmd resolves its caller only with the device's reply to
\* that caller's own request, the one carrying the request's reply id;
\* never with a frame that answers another command, issued concurrently
\* or earlier and timed out.
C26_ReplyAnswersOwnRequest ==
  \A i \in OpIds :
     (ops[i].kind \in {"connect", "exec"} /\ ops[i].st = "ok") =>
        /\ ~isEventFrame(ops[i].reply)
        /\ readUIntLE(ops[i].reply, 6, 2)
             = readUIntLE(payload(ops[i].request), 6, 2)

(* ------------------------------------------------------------------ *)
(* Properties of what a timeout leaves behind                          *)
(* ------------------------------------------------------------------ *)

\* C27: when executeCmd, requestData or the chunked reassembly ends with a
\* timeout, on either transport, no socket listener the operation
\* installed is left and none of its timers is pending.
C27_TimeoutDetachesEverything ==
  [][\A i \in OpIds :
       (/\ ops[i].st = "pending" /\ ops'[i].st # "pending"
        /\ ops'[i].err \in
              ChunkTimeouts \cup
                {"TIMEOUT_ON_WRITING_MESSAGE",
                 "TIMEOUT_ON_RECEIVING_REQUEST_DATA",
                 "TIMEOUT_IN_RECEIVING_RESPONSE_AFTER_REQUESTING_DATA"}) =>
          /\ \A k \in 1..Len(listeners') : listeners'[k].op # i
          /\ ops'[i].timer = "none"]_vars

(* ------------------------------------------------------------------ *)
(* Properties of the reassembly over a byte stream                     *)
(* ------------------------------------------------------------------ *)

\* C28: however the TCP stream is cut into data events, a bulk read all
\* of whose chunks the device sent, once every byte has been delivered
\* and unless a timer ended it before, is resolved with all N bytes and
\* no error. (Stated for N that is no multiple of MAX_CHUNK; the multiples
\* fail whatever the cut, see C7.)
C28_StreamCutsDoNotMatter ==
  \A i \in OpIds :
     (/\ tr = "tcp" /\ ops[i].kind = "read"
      /\ ops[i].size > 0 /\ ops[i].size % MAX_CHUNK # 0
      /\ wire = <<>> /\ ops[i].err = "") =>
        /\ ops[i].st = "ok"
        /\ ops[i].reply = DataRange(0, ops[i].size)

(* ------------------------------------------------------------------ *)
(* Properties of the reassembly of datagrams                           *)
(* ------------------------------------------------------------------ *)

\* C29: a UDP chunked bulk read resolves without error only when it holds
\* exactly N bytes as an ACK_OK arrives, and those are the bytes of every
\* DATA datagram taken once: with a DATA datagram lost or duplicated it
\* does not resolve successfully.
C29_NoSuccessOnLossOrDuplicate ==
  \A i \in OpIds :
     (/\ tr = "udp" /\ ops[i].kind = "read" /\ ops[i].size > 0
      /\ ops[i].st = "ok" /\ ops[i].err = "") =>
        /\ Len(ops[i].reply) = ops[i].size
        /\ ops[i].reply = DataRange(0, ops[i].size)

(* ------------------------------------------------------------------ *)
(* Properties of readWithBuffer's first response                       *)
(* ------------------------------------------------------------------ *)

\* C30: readWithBuffer branches on the command of the response to its
\* CMD_DATA_WRRQ.  CMD_DATA: the payload is returned (UDP at once, TCP
\* when the 1 s collecting timer ends, with mode 8) and no CMD_DATA_RDY is
\* written.  CMD_ACK_OK or CMD_PREPARE_DATA carrying a size: the chunked
\* receive starts with N read at payload offset 1.  Any other command: the
\* read fails with ERROR_IN_UNHANDLE_CMD and the command's name, and no
\* CMD_DATA_RDY is written.
C30_BranchesOnFirstResponse ==
  [][\A i \in OpIds :
       /\ (/\ ops[i].kind = "read" /\ ops[i].inner = "pending"
           /\ ops[i].timer = "reqAfter"
           /\ wire # <<>> /\ wire' # wire) =>
             LET inner == payload(Head(wire))
                 commandId == readUIntLE(inner, 0, 2)
                 data == subarrayFrom(inner, 8)
             IN  CASE commandId = CMD_DATA ->
                        /\ lastSent' = lastSent
                        /\ IF tr = "tcp"
                           THEN ops'[i].timer = "collect"
                           ELSE /\ ops'[i].st = "ok"
                                /\ ops'[i].err = ""
                                /\ ops'[i].reply = data
                   [] commandId \in {CMD_ACK_OK, CMD_PREPARE_DATA} ->
                        canRead(data, 1, 4) =>
                           /\ ops'[i].st = "pending"
                           /\ ops'[i].size = readUIntLE(data, 1, 4)
                           /\ ops'[i].timer = "chunk"
                           /\ readUIntLE(payload(lastSent'), 0, 2) = CMD_DATA_RDY
                   [] OTHER ->
                        /\ lastSent' = lastSent
                        /\ ops'[i].st = "err"
                        /\ ops'[i].err = "ERROR_IN_UNHANDLE_CMD "
                                           \o exportErrorMessage(commandId)
       /\ (/\ ops[i].kind = "read" /\ ops[i].inner = "pending"
           /\ ops[i].timer = "collect" /\ ops'[i].timer # "collect") =>
             /\ lastSent' = lastSent
             /\ ops'[i].st = "ok"
             /\ ops'[i].err = ""
             /\ ops'[i].mode = 8
             /\ ops'[i].reply = subarrayFrom(ops[i].replyBuffer, 16)]_vars

(* ------------------------------------------------------------------ *)
(* Properties of the chunk requests                                    *)
(* ------------------------------------------------------------------ *)

\* the CMD_DATA_RDY requests that reached the device in this step
issued == SubSeq(dev'.asked, Len(dev.asked) + 1, Len(dev'.asked))

\* the bytes the first k of these requests ask for
RECURSIVE bytesAsked(_, _)
bytesAsked(a, k) == IF k = 0 THEN 0 ELSE bytesAsked(a, k - 1) + a[k].size

\* C31: the CMD_DATA_RDY requests of the chunked loop start at 0, MAX_CHUNK,
\* 2 * MAX_CHUNK, ... in this order, each starts where the one before it
\* ended, and their sizes add up to the announced N: the ranges tile [0, N)
\* (a step in which one read enters its loop)
C31_ChunkRequestsTile ==
  [][\A i \in OpIds :
       (/\ ops[i].kind = "read" /\ ops[i].size = 0 /\ ops'[i].size > 0
        /\ \A k \in OpIds \ {i} : ops'[k].size = ops[k].size) =>
          /\ Len(dev'.asked) >= Len(dev.asked)
          /\ issued # <<>>
          /\ \A j \in 1..Len(issued) :
                /\ issued[j].start = (j - 1) * MAX_CHUNK
                /\ issued[j].start = bytesAsked(issued, j - 1)
          /\ bytesAsked(issued, Len(issued)) = ops'[i].size]_vars

\* a read of 2 * MAX_CHUNK + 1 bytes asked for its three ranges
C31_Witness ==
  \E i \in OpIds :
     /\ ops[i].kind = "read" /\ ops[i].size = 2 * MAX_CHUNK + 1
     /\ dev.asked = << [start |-> 0, size |-> MAX_CHUNK],
                       [start |-> MAX_CHUNK, size |-> MAX_CHUNK],
                       [start |-> 2 * MAX_CHUNK, size |-> 1] >>

\* C32: for an announced N the loop sends floor(N / MAX_CHUNK) requests of
\* MAX_CHUNK bytes and one more only when N mod MAX_CHUNK > 0: as many
\* CMD_DATA_RDY frames as there are packets to come, none of size 0
C32_NoEmptyChunkRequest ==
  [][\A i \in OpIds :
       (/\ ops[i].kind = "read" /\ ops[i].size = 0 /\ ops'[i].size > 0
        /\ \A k \in OpIds \ {i} : ops'[k].size = ops[k].size) =>
          LET N == ops'[i].size
              full == N \div MAX_CHUNK
          IN  /\ Len(issued) = full + (IF N % MAX_CHUNK > 0 THEN 1 ELSE 0)
              /\ \A j \in 1..Len(issued) :
                    /\ issued[j].size > 0
                    /\ j <= full => issued[j].size = MAX_CHUNK]_vars

(* ------------------------------------------------------------------ *)
(* Properties of the user record setUser writes                        *)
(* ------------------------------------------------------------------ *)

\* the number a string of decimal digits stands for
RECURSIVE decimal(_)
decimal(str) ==
  IF str = <<>> THEN 0
  ELSE 10 * decimal(SubSeq(str, 1, Len(str) - 1)) + (str[Len(str)] - 48)

\* C33: the 72-byte payload of the CMD_USER_WRQ frame that setUser writes,
\* read by decodeUserData72, gives back the uid, role, password, name,
\* cardno and userid that setUser was called with
C33_SetUserRoundTrip ==
  \A i \in OpIds :
     (/\ ops[i].kind = "setUser"
      /\ (i + 1) \in DOMAIN ops
      /\ ops[i + 1].cmd = CMD_USER_WRQ
      /\ ops[i + 1].request # <<>>) =>
        LET a == ops[i].args
            d == decodeUserData72(
                   subarrayFrom(payload(ops[i + 1].request), 8))
        IN  /\ Len(payload(ops[i + 1].request)) = 8 + 72
            /\ d.uid = a.uid
            /\ d.role = a.role
            /\ d.password = a.password
            /\ d.name = a.name
            /\ d.cardno = decimal(a.cardno)
            /\ d.userId = a.userid

(* ------------------------------------------------------------------ *)
(* Properties of a facade whose createSocket returned                  *)
(* ------------------------------------------------------------------ *)

\* C34: whenever createSocket returns without throwing, connectionType is
\* "tcp" or "udp" and the transport it names holds a socket and the
\* session id the device assigned, so that functionWrapper does not
\* answer the next operation with "Socket isn't connected !"; whatever
\* calls, failures and socket closes came before
C34_ReturnedMeansConnected ==
  [][(/\ call.pc # "idle" \/ call'.n # call.n
      /\ call'.pc = "idle"
      /\ outcome'.st = "ok") =>
        /\ connectionType' \in {"tcp", "udp"}
        /\ connectionType' = "tcp" =>
              /\ zklibTcp'.socket = "open"
              /\ zklibTcp'.sessionId = DevSessionId
        /\ connectionType' = "udp" =>
              /\ zklibUdp'.socket = "open"
              /\ zklibUdp'.sessionId = DevSessionId]_vars

(* ------------------------------------------------------------------ *)
(* Properties of the progress callback                                 *)
(* ------------------------------------------------------------------ *)

\* C35: the progress callback of a bulk read is called only while that
\* read is unresolved, and never with more bytes received than the total
\* announced; also when bulk reads follow one another on one transport
C35_ProgressBeforeResolve ==
  [][\A i \in OpIds :
       (ops[i].kind = "read" /\ ops'[i].kind = "read"
        /\ ops'[i].progress # ops[i].progress) =>
          /\ ops[i].st = "pending"
          /\ \A k \in 1..Len(ops'[i].progress) :
                ops'[i].progress[k] <= ops'[i].size]_vars

====
